---- MODULE Spec2Model ----
(***************************************************************************)
(* Work-item scheduling and execution engine of harmony.                   *)
(*                                                                         *)
(*   - work-item-polling.ts: getWorkFromDatabase, getWorkItemsFromDatabase *)
(*     (with shuffleArray) and getWorkFromQueue, run by concurrent         *)
(*     processes against one store (work items and user_work counts) and   *)
(*     the service and scheduler queues;                                   *)
(*   - the service runner: runServiceFromPull and runQueryCmrFromPull.     *)
(*                                                                         *)
(* Every db.transaction is one atomic step (the store serialises them);    *)
(* every other await is a point where other processes may run.             *)
(***************************************************************************)
EXTENDS Integers, Sequences, FiniteSets, TLC

(***************************************************************************)
(* Bounds of the model.                                                    *)
(***************************************************************************)
NProcs == 3
MaxItems == 2
MaxBatchSize == 2
MaxDups == 1
MaxRequests == 1
MaxFaults == 1
MaxRetries == 1
MaxKeys == 3
MaxBatches == 4
MaxBatchID == 3
DrainItems == 5
MaxWrites == 2
DesyncItems == 5
DesyncBatchSize == 3
SmallJob == 1
BigJob == 50
FairBatchSize == 10

Procs == 1..NProcs
Jobs == {"j1", "j2", "j3"}
Services == {"query-cmr", "subsetter"}
NULL == 0

READY == "READY"
RUNNING == "RUNNING"
SUCCESSFUL == "SUCCESSFUL"
FAILED == "FAILED"
CANCELED == "CANCELED"
WorkItemStatus == {READY, RUNNING, SUCCESSFUL, FAILED, CANCELED}
TerminalStatus == {SUCCESSFUL, FAILED, CANCELED}

VARIABLES
    items,               \* the work_items table: id -> [jobID, serviceID, status]
    userWork,            \* the user_work table: <<jobID, serviceID>> -> counts
    queue,               \* visible dispatch messages per work item id
    schedQueue,          \* scheduler-request queue: messages per service
    pc,                  \* position of each process
    svc,                 \* serviceID argument of the running call
    batchSize,           \* batchSize argument (1: the limit of the single-item path)
    jobIds,              \* shuffledJobIds not yet processed
    remainingNumOfJobs,
    remainingBatchSize,
    result,              \* result / workItems: the ids the call returns
    queueItem,           \* the message a consumer received (NULL: none)
    currentStatus,       \* status read at check-in
    deleted,             \* the received message was deleted from the queue
    faults,              \* store errors the environment may still raise
    dups,                \* duplicate deliveries the queue may still make
    useServiceQueues,    \* env.useServiceQueues
    runner,              \* the service runner's call (runServiceFromPull, runQueryCmrFromPull)
    workItemRecord,            \* the work item the service runner works on
    s3Logs,              \* the object at the work item's logs location
    s3Outputs,           \* the work item's outputs directory in the object store
    abandoned,           \* the exec call of a run that timed out and was retried
    stdOut,              \* a LogStream: the chunks written, logStrArr, and what it logged
    batches,             \* the batches table: rows in insertion order
    highestBatch,        \* the last withHighestBatchIDForJobService call and its result
    allocators           \* position and locals of each batch allocator

storeVars == <<items, userWork>>
queueVars == <<queue, schedQueue>>
batchVars == <<jobIds, remainingNumOfJobs, remainingBatchSize>>
consumerVars == <<queueItem, currentStatus, deleted>>
procVars == <<pc, svc, batchSize, jobIds, remainingNumOfJobs, remainingBatchSize, result,
              queueItem, currentStatus, deleted>>
envVars == <<faults, dups, useServiceQueues>>
runnerVars == <<runner, workItemRecord, s3Logs, s3Outputs, abandoned>>
batchTableVars == <<batches, highestBatch, allocators>>
vars == <<items, userWork, queue, schedQueue, pc, svc, batchSize, jobIds, remainingNumOfJobs,
          remainingBatchSize, result, queueItem, currentStatus, deleted, faults, dups,
          useServiceQueues, runner, workItemRecord, s3Logs, s3Outputs, abandoned, stdOut, batches,
          highestBatch,
          allocators>>

(***************************************************************************)
(* Helpers.                                                                *)
(***************************************************************************)
Min(S) == CHOOSE x \in S : \A y \in S : x <= y

Range(s) == {s[k] : k \in 1..Len(s)}

RECURSIVE LowestN(_, _)
LowestN(S, n) ==
    IF n <= 0 \/ S = {} THEN <<>>
    ELSE LET m == Min(S) IN <<m>> \o LowestN(S \ {m}, n - 1)

\* Math.ceil(a / b) for b > 0
Ceil(a, b) == -((-a) \div b)

(***************************************************************************)
(* The store (models/work-item, models/user-work).                         *)
(***************************************************************************)
UserOf(j) == IF j = "j3" THEN "u2" ELSE "u1"

JobRank(j) == CASE j = "j1" -> 1 [] j = "j2" -> 2 [] j = "j3" -> 3

ItemsIn(its, S, j, statuses) ==
    {i \in DOMAIN its : its[i].serviceID = S /\ its[i].jobID = j /\ its[i].status \in statuses}

\* ids of up to `limit` READY items of (jobID, serviceID), lowest id first
getNextWorkItems(its, S, j, limit) == LowestN(ItemsIn(its, S, j, {READY}), limit)

getNextWorkItem(its, S, j) == getNextWorkItems(its, S, j, 1)

updateWorkItemStatuses(its, ids, status) ==
    [i \in DOMAIN its |-> IF i \in ids THEN [its[i] EXCEPT !.status = status] ELSE its[i]]

getWorkItemStatus(its, id) == its[id].status

incrementRunningAndDecrementReadyCounts(uw, j, S, count) ==
    [uw EXCEPT ![<<j, S>>] = [readyCount |-> @.readyCount - count,
                              runningCount |-> @.runningCount + count]]

recalculateCounts(its, uw, j) ==
    [k \in DOMAIN uw |->
        IF k[1] = j
        THEN [readyCount |-> Cardinality(ItemsIn(its, k[2], j, {READY})),
              runningCount |-> Cardinality(ItemsIn(its, k[2], j, {RUNNING}))]
        ELSE uw[k]]

\* the users getNextUsernameForWork may return (none: null)
getNextUsernameForWork(uw, S) ==
    {UserOf(j) : j \in {x \in Jobs : uw[<<x, S>>].readyCount > 0}}

\* the jobs getNextJobIdForUsernameAndService may return
getNextJobIdForUsernameAndService(uw, S, username) ==
    {j \in Jobs : UserOf(j) = username /\ uw[<<j, S>>].readyCount > 0}

\* the sets of job ids getNextJobIds may return: up to batchSize jobs with ready work
getNextJobIds(uw, S, size) ==
    LET ready == {j \in Jobs : uw[<<j, S>>].readyCount > 0}
    IN  IF Cardinality(ready) <= size THEN {ready}
        ELSE {J \in SUBSET ready : Cardinality(J) = size}

ConsistentCounts(its) ==
    [k \in Jobs \X Services |->
        [readyCount |-> Cardinality(ItemsIn(its, k[2], k[1], {READY})),
         runningCount |-> Cardinality(ItemsIn(its, k[2], k[1], {RUNNING}))]]

(***************************************************************************)
(* work-item-polling.ts                                                    *)
(***************************************************************************)
QUERY_CMR_SERVICE_REGEX(S) == S = "query-cmr"

\* [array[i], array[j]] = [array[j], array[i]] (1-based)
Swap(array, i, j) == [array EXCEPT ![i] = array[j], ![j] = array[i]]

\* a variant of the loop that never leaves an element in place (j drawn from 1..i-1)
RECURSIVE FisherYatesSattolo(_, _)
FisherYatesSattolo(array, i) ==
    IF i <= 1 THEN {array}
    ELSE UNION {FisherYatesSattolo(Swap(array, i, j), i - 1) : j \in 1..(i - 1)}

\* the loop of shuffleArray from index i down (1-based: i = array.length down to 2),
\* j drawn from 1..i: the arrays the loop can end with
RECURSIVE FisherYates(_, _)
FisherYates(array, i) ==
    IF i <= 1 THEN {array}
    ELSE UNION {FisherYates(Swap(array, i, j), i - 1) : j \in 1..i}

\* the list of job ids in the order the store returns it
RECURSIVE JobList(_)
JobList(J) ==
    IF J = {} THEN <<>>
    ELSE LET j == CHOOSE x \in J : \A y \in J : x = y \/ JobRank(x) < JobRank(y)
         IN <<j>> \o JobList(J \ {j})

\* the orders shuffleArray can produce
shuffleArray(J) == FisherYates(JobList(J), Cardinality(J))

\* the store errors the environment may raise in a transaction
FaultPoints == IF faults > 0 THEN {"none", "early", "late"} ELSE {"none"}

Spend(fault) == faults' = IF fault = "none" THEN faults ELSE faults - 1

\* a variant that recomputes the counts after every claim
UpdateCountsAlwaysRecalculate(its, uw, j, S, n) ==
    incrementRunningAndDecrementReadyCounts(recalculateCounts(its, uw, j), j, S, n)

\* a variant that does not recompute the counts when nothing was found
UpdateCountsNeverRecalculate(its, uw, j, S, n) ==
    IF n > 0 THEN incrementRunningAndDecrementReadyCounts(uw, j, S, n) ELSE uw

\* a variant that moves one item in the counts however many were claimed
UpdateCountsByOne(its, uw, j, S, n) ==
    IF n > 0 THEN incrementRunningAndDecrementReadyCounts(uw, j, S, 1)
    ELSE recalculateCounts(its, uw, j)

\* lines 31-46 and 104-120: the counts after a claim of n items of job j, taken
\* from the items its (n = 0: no READY item was found)
UpdateCounts(its, uw, j, S, n) ==
    IF n > 0 THEN incrementRunningAndDecrementReadyCounts(uw, j, S, n)
    ELSE recalculateCounts(its, uw, j)

\* getWorkFromDatabase: one transaction
\* fault "early": a query or the count update throws (result not yet assigned);
\* fault "late": the commit fails after the callback assigned result.
getWorkFromDatabase(p, S) ==
    /\ pc[p] = "idle"
    /\ \E fault \in FaultPoints :
       LET users == getNextUsernameForWork(userWork, S) IN
       /\ Spend(fault)
       /\ IF users = {} \/ fault = "early"
          THEN /\ result' = [result EXCEPT ![p] = <<>>]
               /\ UNCHANGED storeVars
          ELSE \E username \in users :
               \E jobID \in getNextJobIdForUsernameAndService(userWork, S, username) :
               LET workItem == getNextWorkItem(items, S, jobID) IN
               /\ result' = [result EXCEPT ![p] = workItem]
               /\ IF fault = "late"
                  THEN UNCHANGED storeVars
                  ELSE /\ items' = updateWorkItemStatuses(items, Range(workItem), RUNNING)
                       /\ userWork' = UpdateCounts(items, userWork, jobID, S, Len(workItem))
    /\ pc' = [pc EXCEPT ![p] = "dbdone"]
    /\ svc' = [svc EXCEPT ![p] = S]
    /\ batchSize' = [batchSize EXCEPT ![p] = 1]
    /\ UNCHANGED <<queueVars, batchVars, consumerVars, dups, useServiceQueues, runnerVars, batchTableVars, stdOut>>

\* line 102
WorkSizePlusOne(rb, rj) == IF rj > 0 THEN Ceil(rb, rj) + 1 ELSE 1

WorkSizeUndivided(rb, rj) == IF rj > 0 THEN rb ELSE 1

WorkSizeFloor(rb, rj) == IF rj > 0 THEN rb \div rj ELSE 1

\* a variant that allots one item less
WorkSizeMinusOne(rb, rj) == IF rj > 0 THEN Ceil(rb, rj) - 1 ELSE 1

WorkSize(rb, rj) == IF rj > 0 THEN Ceil(rb, rj) ELSE 1

\* getWorkItemsFromDatabase up to the loop: getNextJobIds, shuffleArray
BatchStartCore(p, S, size) ==
    /\ pc[p] = "idle"
    /\ svc' = [svc EXCEPT ![p] = S]
    /\ batchSize' = [batchSize EXCEPT ![p] = size]
    /\ result' = [result EXCEPT ![p] = <<>>]
    /\ \E fault \in FaultPoints \ {"late"} :
       /\ Spend(fault)
       /\ IF fault = "early"
          THEN /\ pc' = [pc EXCEPT ![p] = "batchdone"]
               /\ UNCHANGED batchVars
          ELSE \E J \in getNextJobIds(userWork, S, size) :
               \E shuffledJobIds \in shuffleArray(J) :
               /\ jobIds' = [jobIds EXCEPT ![p] = shuffledJobIds]
               /\ remainingNumOfJobs' = [remainingNumOfJobs EXCEPT ![p] = Len(shuffledJobIds)]
               /\ remainingBatchSize' = [remainingBatchSize EXCEPT ![p] = size]
               /\ pc' = [pc EXCEPT ![p] = "loop"]
    /\ UNCHANGED <<storeVars, consumerVars, dups, useServiceQueues, runnerVars, batchTableVars, stdOut>>

BatchStart(p, S, size) ==
    /\ BatchStartCore(p, S, size)
    /\ UNCHANGED queueVars

\* a variant of the loop that stops at a job that yields no items
RemainingJobsAbort(ids, nextWorkItems) == IF nextWorkItems = <<>> THEN <<>> ELSE Tail(ids)

\* line 127: the jobs the loop still has to process after this one
RemainingJobs(ids, nextWorkItems) == Tail(ids)

\* one iteration of the loop: db.transaction(processJob)
\* fault "early": getNextWorkItems throws; fault "late": the count update, the
\* query-cmr limit or the commit fails after the items were pushed.
processJob(p) ==
    /\ pc[p] = "loop"
    /\ jobIds[p] # <<>>
    /\ \E fault \in FaultPoints :
       LET jobId == Head(jobIds[p])
           workSize == WorkSize(remainingBatchSize[p], remainingNumOfJobs[p])
           nextWorkItems == getNextWorkItems(items, svc[p], jobId, workSize)
       IN
       /\ Spend(fault)
       /\ CASE fault = "early" ->
                 /\ pc' = [pc EXCEPT ![p] = "batchdone"]
                 /\ UNCHANGED <<storeVars, batchVars, result>>
            [] fault = "late" ->
                 /\ pc' = [pc EXCEPT ![p] = "batchdone"]
                 /\ result' = [result EXCEPT ![p] = @ \o nextWorkItems]
                 /\ UNCHANGED <<storeVars, batchVars>>
            [] OTHER ->
                 /\ result' = [result EXCEPT ![p] = @ \o nextWorkItems]
                 /\ items' = updateWorkItemStatuses(items, Range(nextWorkItems), RUNNING)
                 /\ userWork' = UpdateCounts(items, userWork, jobId, svc[p], Len(nextWorkItems))
                 /\ remainingNumOfJobs' = [remainingNumOfJobs EXCEPT ![p] = @ - 1]
                 /\ remainingBatchSize' = [remainingBatchSize EXCEPT ![p] = @ - Len(nextWorkItems)]
                 /\ jobIds' = [jobIds EXCEPT ![p] = RemainingJobs(@, nextWorkItems)]
                 /\ UNCHANGED pc
    /\ UNCHANGED <<queueVars, svc, batchSize, consumerVars, dups, useServiceQueues, runnerVars, batchTableVars, stdOut>>

\* the loop is over: return workItems
BatchReturn(p) ==
    /\ pc[p] = "loop"
    /\ jobIds[p] = <<>>
    /\ pc' = [pc EXCEPT ![p] = "batchdone"]
    /\ UNCHANGED <<storeVars, queueVars, svc, batchSize, batchVars, result, consumerVars,
                   envVars, runnerVars, batchTableVars, stdOut>>

\* processes go back to idle with their locals cleared
Cleared(p) ==
    /\ pc' = [pc EXCEPT ![p] = "idle"]
    /\ batchSize' = [batchSize EXCEPT ![p] = 0]
    /\ jobIds' = [jobIds EXCEPT ![p] = <<>>]
    /\ remainingNumOfJobs' = [remainingNumOfJobs EXCEPT ![p] = 0]
    /\ remainingBatchSize' = [remainingBatchSize EXCEPT ![p] = 0]
    /\ result' = [result EXCEPT ![p] = <<>>]
    /\ queueItem' = [queueItem EXCEPT ![p] = NULL]
    /\ currentStatus' = [currentStatus EXCEPT ![p] = READY]
    /\ deleted' = [deleted EXCEPT ![p] = FALSE]
    /\ svc' = [svc EXCEPT ![p] = "subsetter"]

(***************************************************************************)
(* getWorkFromQueue                                                        *)
(***************************************************************************)
\* a variant in which every service has a queue
getQueueForUrlAny(S) == TRUE

\* services that have a queue configured (getQueueForUrl returns one)
getQueueForUrl(S) == S \in Services

\* what queue.getMessage can return from the queue of service S: a visible
\* message, or NULL when there is none
getMessage(S) ==
    LET visible == {i \in DOMAIN queue : queue[i] > 0 /\ items[i].serviceID = S}
    IN  IF visible = {} THEN {NULL} ELSE visible

Receive(p, m) ==
    /\ queueItem' = [queueItem EXCEPT ![p] = m]
    /\ deleted' = [deleted EXCEPT ![p] = FALSE]
    /\ queue' = IF m = NULL THEN queue ELSE [queue EXCEPT ![m] = @ - 1]

\* lines 156-166: look the queue up, short poll
ShortPoll(p, S) ==
    /\ pc[p] = "idle"
    /\ svc' = [svc EXCEPT ![p] = S]
    /\ IF ~getQueueForUrl(S)
       THEN /\ pc' = [pc EXCEPT ![p] = "threw"]
            /\ UNCHANGED <<queue, queueItem, deleted>>
       ELSE \E m \in getMessage(S) :
            /\ Receive(p, m)
            /\ pc' = [pc EXCEPT ![p] = IF m = NULL THEN "request" ELSE "delete"]
    /\ UNCHANGED <<storeVars, schedQueue, batchSize, batchVars, result, currentStatus,
                   envVars, runnerVars, batchTableVars, stdOut>>

\* a variant that sends the request whatever env.useServiceQueues is
makeWorkScheduleRequestAlways(p) ==
    /\ pc[p] = "request"
    /\ schedQueue[svc[p]] < MaxRequests
    /\ schedQueue' = [schedQueue EXCEPT ![svc[p]] = @ + 1]
    /\ pc' = [pc EXCEPT ![p] = "longpoll"]
    /\ UNCHANGED <<storeVars, queue, svc, batchSize, batchVars, result, consumerVars,
                   envVars, runnerVars, batchTableVars, stdOut>>

\* a variant that never sends the request
makeWorkScheduleRequestNever(p) ==
    /\ pc[p] = "request"
    /\ pc' = [pc EXCEPT ![p] = "longpoll"]
    /\ UNCHANGED <<storeVars, queueVars, svc, batchSize, batchVars, result, consumerVars,
                   envVars, runnerVars, batchTableVars, stdOut>>

\* lines 143-149 and 169: makeWorkScheduleRequest
makeWorkScheduleRequest(p) ==
    /\ pc[p] = "request"
    /\ schedQueue[svc[p]] < MaxRequests
    /\ schedQueue' = IF useServiceQueues
                     THEN [schedQueue EXCEPT ![svc[p]] = @ + 1]
                     ELSE schedQueue
    /\ pc' = [pc EXCEPT ![p] = "longpoll"]
    /\ UNCHANGED <<storeVars, queue, svc, batchSize, batchVars, result, consumerVars,
                   envVars, runnerVars, batchTableVars, stdOut>>

\* line 176: long poll; it gives up with no message only when none is visible
LongPoll(p) ==
    /\ pc[p] = "longpoll"
    /\ \E m \in getMessage(svc[p]) :
       /\ Receive(p, m)
       /\ pc' = [pc EXCEPT ![p] = IF m = NULL THEN "qdone" ELSE "delete"]
    /\ UNCHANGED <<storeVars, schedQueue, svc, batchSize, batchVars, result, currentStatus,
                   envVars, runnerVars, batchTableVars, stdOut>>

\* queue.deleteMessage(receipt): the received message is gone from the queue
deleteMessageNot(m) == FALSE

deleteMessage(m) == m # NULL

\* line 184: queue.deleteMessage(queueItem.receipt)
DeleteMessage(p) ==
    /\ pc[p] = "delete"
    /\ deleted' = [deleted EXCEPT ![p] = deleteMessage(queueItem[p])]
    /\ pc' = [pc EXCEPT ![p] = "checkin"]
    /\ UNCHANGED <<storeVars, queueVars, svc, batchSize, batchVars, result, queueItem, currentStatus,
                   envVars, runnerVars, batchTableVars, stdOut>>

\* line 198: what the call returns once the transaction has committed
CheckedIn(item, status) == <<item>>

\* a variant that returns the item although the transaction failed
CheckInFailedReturnsItem(item) == <<item>>

\* lines 199-201 and 206: the transaction threw; the error is logged, return null
CheckInFailed(item) == <<>>

\* lines 188-201: the check-in transaction and the return
CheckIn(p) ==
    /\ pc[p] = "checkin"
    /\ \E fault \in FaultPoints \ {"late"} :
       /\ Spend(fault)
       /\ IF fault = "early"
          THEN /\ result' = [result EXCEPT ![p] = CheckInFailed(queueItem[p])]
               /\ UNCHANGED <<storeVars, currentStatus>>
          ELSE LET status == getWorkItemStatus(items, queueItem[p]) IN
               /\ currentStatus' = [currentStatus EXCEPT ![p] = status]
               /\ items' = IF status = CANCELED
                           THEN items
                           ELSE updateWorkItemStatuses(items, {queueItem[p]}, RUNNING)
               /\ result' = [result EXCEPT ![p] = CheckedIn(queueItem[p], status)]
               /\ UNCHANGED userWork
    /\ pc' = [pc EXCEPT ![p] = "qdone"]
    /\ UNCHANGED <<queueVars, svc, batchSize, batchVars, queueItem, deleted, dups, useServiceQueues,
                   runnerVars, batchTableVars, stdOut>>

(***************************************************************************)
(* The callers and the environment of the polling functions.               *)
(***************************************************************************)
\* the caller got no work (or the error): it polls again later
NoWork(p) ==
    /\ \/ pc[p] \in {"qdone", "dbdone"} /\ result[p] = <<>>
       \/ pc[p] = "threw"
    /\ Cleared(p)
    /\ UNCHANGED <<storeVars, queueVars, envVars, runnerVars, batchTableVars, stdOut>>

Executing(p) == pc[p] \in {"qdone", "dbdone"} /\ result[p] # <<>>

\* the worker that was handed an item reports its outcome: SUCCESSFUL, FAILED, or
\* READY for a retry; the update applies to a RUNNING item only, with its counts
WorkerDone(p, outcome) ==
    /\ Executing(p)
    /\ LET id == result[p][1]
           k == <<items[id].jobID, items[id].serviceID>>
       IN  IF items[id].status = RUNNING
           THEN /\ items' = updateWorkItemStatuses(items, {id}, outcome)
                /\ userWork' = [userWork EXCEPT ![k] =
                       [readyCount |-> @.readyCount + (IF outcome = READY THEN 1 ELSE 0),
                        runningCount |-> @.runningCount - 1]]
           ELSE UNCHANGED storeVars
    /\ Cleared(p)
    /\ UNCHANGED <<queueVars, envVars, runnerVars, batchTableVars, stdOut>>

\* cancellation of a non-terminal item, with its counts
Cancel(id) ==
    /\ items[id].status \in {READY, RUNNING}
    /\ LET k == <<items[id].jobID, items[id].serviceID>> IN
       userWork' = [userWork EXCEPT ![k] =
           IF items[id].status = READY
           THEN [@ EXCEPT !.readyCount = @ - 1]
           ELSE [@ EXCEPT !.runningCount = @ - 1]]
    /\ items' = updateWorkItemStatuses(items, {id}, CANCELED)
    /\ UNCHANGED <<queueVars, procVars, envVars, runnerVars, batchTableVars, stdOut>>

\* at-least-once delivery: a visible message is delivered once more
Redeliver(id) ==
    /\ dups > 0
    /\ queue[id] > 0
    /\ queue' = [queue EXCEPT ![id] = @ + 1]
    /\ dups' = dups - 1
    /\ UNCHANGED <<storeVars, schedQueue, procVars, faults, useServiceQueues, runnerVars, batchTableVars, stdOut>>

\* the scheduler takes a scheduling request and runs the batch path for its service
SchedulerPoll(p) ==
    \E S \in Services : \E size \in 1..MaxBatchSize :
        /\ schedQueue[S] > 0
        /\ schedQueue' = [schedQueue EXCEPT ![S] = @ - 1]
        /\ BatchStartCore(p, S, size)
        /\ UNCHANGED queue

\* the scheduler puts every work item of the batch on the service's queue
SchedulerEnqueue(p) ==
    /\ pc[p] = "batchdone"
    /\ queue' = [i \in DOMAIN queue |-> queue[i] + Cardinality({n \in 1..Len(result[p]) : result[p][n] = i})]
    /\ Cleared(p)
    /\ UNCHANGED <<storeVars, schedQueue, envVars, runnerVars, batchTableVars, stdOut>>

(***************************************************************************)
(* The service runner: runServiceFromPull, runQueryCmrFromPull.            *)
(* A ServiceResponse is a record of its optional fields, each the empty    *)
(* set when absent and {value} when present; a message built from parts is *)
(* the sequence of its parts.                                              *)
(***************************************************************************)
ServiceResponse(catalogs, total, sizes, scroll, err) ==
    [batchCatalogs |-> catalogs, totalItemsSize |-> total, outputItemSizes |-> sizes,
     scrollID |-> scroll, error |-> err]

NoResponse == ServiceResponse({}, {}, {}, {}, {})

ErrorResponse(msg) == ServiceResponse({}, {}, {}, {}, {msg})

OOM_EXIT_CODE == "137"

\* line 257
TimeoutMessage == <<"Worker timed out after ", "workerTimeout / 1000.0", " seconds">>

\* line 241
ServiceFailedMessage == <<"The ", "serviceName", " service failed.">>

PendingPromise == [state |-> "pending", value |-> NoResponse]

\* logs: stdOut.logStrArr when the status callback runs; artifact, message: what
\* _getErrorMessage found at error.json and what it returned
IdleRunner ==
    [fn |-> "none", pos |-> "idle", promise |-> PendingPromise, timer |-> "unset",
     exec |-> "none", cb |-> "none", status |-> "none", exitCode |-> "none",
     response |-> "none", ret |-> NoResponse, logs |-> <<>>, artifact |-> "none",
     message |-> "none", catalogs |-> {}]

\* an element of LogStream.logStrArr: a string log or a parsed JSON log
LogEntry(kind, line) ==
    [kind |-> kind, marker |-> FALSE, retryCount |-> 0, id |-> 0, line |-> line]

\* line 217 and lines 219, 221: the retry marker, a string or { message: retryMessage }
retryMessage(wi, kind) ==
    [kind |-> kind, marker |-> TRUE, retryCount |-> wi.retryCount, id |-> wi.id, line |-> 0]

\* the object store holds nothing at the location
NoObject == [exists |-> FALSE, body |-> <<>>]

\* JSON.stringify of a list of strings and JSON objects: the text of each element
JSON_stringify(list) == [n \in 1..Len(list) |-> <<"json", list[n]>>]

\* s3.getObjectJson: the list parsed from the stored text
getObjectJson(obj) == [n \in 1..Len(obj.body) |-> obj.body[n][2]]

\* a variant of uploadLogs that does not read the stored list
uploadLogsOverwrite(wi, logs, obj) ==
    LET kind == IF Len(logs) > 0 /\ logs[1].kind = "string" THEN "string" ELSE "object"
    IN  [exists |-> TRUE, body |-> JSON_stringify(<<retryMessage(wi, kind)>> \o logs)]

\* lines 215-231: the object uploadLogs writes to the logs location
uploadLogs(wi, logs, obj) ==
    LET kind == IF Len(logs) > 0 /\ logs[1].kind = "string" THEN "string" ELSE "object"
        newFileContent == <<retryMessage(wi, kind)>> \o logs
    IN  [exists |-> TRUE,
         body |-> JSON_stringify(IF obj.exists
                                 THEN getObjectJson(obj) \o newFileContent
                                 ELSE newFileContent)]

\* resolve(value) of the promise of line 250: only the first resolution counts
ResolveOverwrite(promise, value) == [state |-> "resolved", value |-> value]

ResolveMerge(promise, value) ==
    IF promise.state = "rejected" THEN promise
    ELSE [state |-> "resolved",
          value |-> [f \in DOMAIN value |-> promise.value[f] \cup value[f]]]

Resolve(promise, value) ==
    IF promise.state = "pending" THEN [state |-> "resolved", value |-> value] ELSE promise

\* clearTimeout(timeout)
clearTimeout(timer) == IF timer = "armed" THEN "cleared" ELSE timer

\* a variant that ignores the exit code
_getErrorMessageOfStatusDefault(exitCode, msg) == msg

\* lines 124-131
_getErrorMessageOfStatus(exitCode, msg) ==
    IF exitCode = OOM_EXIT_CODE THEN "Service failed due to running out of memory" ELSE msg

\* a variant that looks at the exit code before error.json
_getErrorMessageOomFirst(exitCode, artifact) ==
    IF exitCode = OOM_EXIT_CODE THEN "Service failed due to running out of memory"
    ELSE IF artifact = "present" THEN "logEntry.error"
    ELSE IF artifact = "absent" THEN "Unknown error"
    ELSE "Service terminated without error message"

\* lines 144-160; artifact: error.json is "present", "absent", or reading it throws
_getErrorMessage(exitCode, artifact) ==
    CASE artifact = "present" -> "logEntry.error"
      [] artifact = "absent" -> _getErrorMessageOfStatus(exitCode, "Unknown error")
      [] OTHER -> _getErrorMessageOfStatus(exitCode, "Service terminated without error message")

\* lines 307-311: the catch around the body of runServiceFromPull
OuterRethrow(r) == [r EXCEPT !.pos = "threw"]

OuterCatch(r) == [r EXCEPT !.pos = "returned", !.ret = ErrorResponse(<<"The service failed.">>)]

\* lines 238-260: the call up to exec.exec. sync: the synchronous part runs ("ok"),
\* throws before the promise is built ("throws"), or throws inside the promise's
\* executor after the timer was set ("executor throws": the promise is rejected)
runServiceFromPull(sync) ==
    /\ runner.fn = "none"
    /\ runner' =
         CASE sync = "throws" ->
                OuterCatch([runner EXCEPT !.fn = "runServiceFromPull"])
           [] sync = "executor throws" ->
                OuterCatch([runner EXCEPT !.fn = "runServiceFromPull", !.timer = "armed",
                                          !.promise = [state |-> "rejected", value |-> NoResponse]])
           [] OTHER ->
                [runner EXCEPT !.fn = "runServiceFromPull", !.pos = "awaiting",
                               !.timer = "armed", !.exec = "pending"]
    /\ UNCHANGED <<storeVars, queueVars, procVars, envVars, s3Outputs, abandoned, batchTableVars, stdOut, workItemRecord, s3Logs>>

\* lines 256-258: the timer fires
TimerFires ==
    /\ runner.timer = "armed"
    /\ runner' = [runner EXCEPT !.timer = "fired",
                                !.promise = Resolve(@, ErrorResponse(TimeoutMessage))]
    /\ UNCHANGED <<storeVars, queueVars, procVars, envVars, s3Outputs, abandoned, batchTableVars, stdOut, workItemRecord, s3Logs>>

\* lines 300-305: the promise of exec.exec rejects
ExecRejects ==
    /\ runner.exec = "pending"
    /\ runner' = [runner EXCEPT !.exec = "rejected",
                                !.timer = clearTimeout(@),
                                !.promise = Resolve(@, ErrorResponse(ServiceFailedMessage))]
    /\ UNCHANGED <<storeVars, queueVars, procVars, envVars, s3Outputs, abandoned, batchTableVars, stdOut, workItemRecord, s3Logs>>

(***************************************************************************)
(* _getStacCatalogs.  A file of the outputs directory is its name: the     *)
(* stem before the digits and the number the digits denote ({}: the name   *)
(* has no digits, as catalog.json).  A directory is the manifest           *)
(* batch-catalogs.json ({}: absent, {names}: its content) and the keys     *)
(* listObjectKeys returns, in the order it returns them.                   *)
(***************************************************************************)
File(stem, digits) == [stem |-> stem, digits |-> digits]

CatalogFile(n) == File("catalog", {n})

Directory(manifest, keys) == [manifest |-> manifest, keys |-> keys]

\* line 101: fileKey.match(/catalog\d*.json$/)
fileKeyFilter(fileKey) == fileKey.stem = "catalog"

\* lines 97 and 102: the URL built from a name
Url(prefix, file) == [prefix |-> prefix, file |-> file]

\* lines 100-102: the keys that pass the filter, in listing order, as URLs
RECURSIVE CatalogUrls(_)
CatalogUrls(keys) ==
    IF keys = <<>> THEN <<>>
    ELSE IF fileKeyFilter(Head(keys))
         THEN <<Url("s3://artifactBucket/", Head(keys))>> \o CatalogUrls(Tail(keys))
         ELSE CatalogUrls(Tail(keys))

\* lines 103-107: url.match(/.*catalog(\d+)\.json$/) is null for a name without
\* digits, and reading .length of null throws
MatchIsNull(url) == url.file.digits = {}

\* lines 105-108: Number(matches[1])
fileNum(url) == CHOOSE n \in url.file.digits : TRUE

\* line 104: Array.prototype.sort calls the comparator on every element of an array
\* of two or more elements
ComparatorThrows(urls) ==
    /\ Len(urls) >= 2
    /\ \E n \in 1..Len(urls) : MatchIsNull(urls[n])

\* lines 104-109: the stable sort by aNum - bNum
RECURSIVE sortByFileNum(_)
sortByFileNum(urls) ==
    IF urls = <<>> THEN <<>>
    ELSE LET a == Head(urls)
             rest == sortByFileNum(Tail(urls))
             before == Cardinality({n \in 1..Len(rest) : fileNum(rest[n]) < fileNum(a)})
         IN  SubSeq(rest, 1, before) \o <<a>> \o SubSeq(rest, before + 1, Len(rest))

\* lines 93-115; threw: the call raised instead of returning
_getStacCatalogs(dir) ==
    IF dir.manifest # {}
    THEN LET batchCatalogs == CHOOSE m \in dir.manifest : TRUE
         IN  [threw |-> FALSE,
              catalogs |-> [n \in 1..Len(batchCatalogs) |-> Url("dir", batchCatalogs[n])]]
    ELSE LET urls == CatalogUrls(dir.keys)
         IN  IF ComparatorThrows(urls)
             THEN [threw |-> TRUE, catalogs |-> <<>>]
             ELSE [threw |-> FALSE,
                   catalogs |-> IF Len(urls) >= 2 THEN sortByFileNum(urls) ELSE urls]

\* an outputs directory holding catalog0.json only
SingleCatalogDir == Directory({}, <<CatalogFile(0)>>)

\* line 279: exec invokes the status callback, which starts uploadLogs
StatusCallback(status, exitCode, logs) ==
    /\ runner.exec = "pending"
    /\ runner' = [runner EXCEPT !.exec = "called", !.cb = "uploading",
                                !.status = status, !.exitCode = exitCode, !.logs = logs]
    /\ UNCHANGED <<storeVars, queueVars, procVars, envVars, s3Outputs, abandoned, batchTableVars, stdOut, workItemRecord, s3Logs>>

\* lines 282-289 and 294-298: uploadLogs returns or throws
UploadLogsEnds(ok) ==
    /\ runner.cb = "uploading"
    /\ runner' =
         IF ok
         THEN [runner EXCEPT !.timer = clearTimeout(@),
                             !.cb = IF runner.status = "Success" THEN "listing" ELSE "errmsg"]
         ELSE [runner EXCEPT !.cb = "done",
                             !.promise = Resolve(@, ErrorResponse(ServiceFailedMessage))]
    /\ s3Logs' = IF ok THEN uploadLogs(workItemRecord, runner.logs, s3Logs) ELSE s3Logs
    /\ UNCHANGED <<storeVars, queueVars, procVars, envVars, s3Outputs, abandoned, batchTableVars, stdOut, workItemRecord>>

\* a variant whose callback has no catch: a throw of _getStacCatalogs ends the
\* callback without a resolve
StacCatalogsEndsUncaught(ok) ==
    /\ runner.cb = "listing"
    /\ LET r == _getStacCatalogs(s3Outputs)
       IN  runner' =
             [runner EXCEPT !.cb = "done",
                            !.catalogs = IF ok THEN {r} ELSE {},
                            !.promise = IF ok /\ ~r.threw
                                        THEN Resolve(@, ServiceResponse({r.catalogs}, {}, {}, {}, {}))
                                        ELSE @]
    /\ UNCHANGED <<storeVars, queueVars, procVars, envVars, s3Outputs, abandoned, batchTableVars, stdOut, workItemRecord, s3Logs>>

\* lines 286-287 and 294-298: _getStacCatalogs returns or throws
StacCatalogsEnds(ok) ==
    /\ runner.cb = "listing"
    /\ LET r == _getStacCatalogs(s3Outputs)
       IN  runner' =
             [runner EXCEPT !.cb = "done",
                            !.catalogs = IF ok THEN {r} ELSE {},
                            !.promise = Resolve(@, IF ok /\ ~r.threw
                                                   THEN ServiceResponse({r.catalogs}, {}, {}, {}, {})
                                                   ELSE ErrorResponse(ServiceFailedMessage))]
    /\ UNCHANGED <<storeVars, queueVars, procVars, envVars, s3Outputs, abandoned, batchTableVars, stdOut, workItemRecord, s3Logs>>

\* lines 290-292: _getErrorMessage returns
ErrorMessageEnds(artifact) ==
    /\ runner.cb = "errmsg"
    /\ runner' =
         [runner EXCEPT !.cb = "done", !.artifact = artifact,
                        !.message = _getErrorMessage(runner.exitCode, artifact),
                        !.promise = Resolve(@, ErrorResponse(
                            <<"serviceName", ": ", _getErrorMessage(runner.exitCode, artifact)>>))]
    /\ UNCHANGED <<storeVars, queueVars, procVars, envVars, s3Outputs, abandoned, batchTableVars, stdOut, workItemRecord, s3Logs>>

\* line 250: the await of the promise ends
AwaitEnds ==
    /\ runner.fn = "runServiceFromPull"
    /\ runner.pos = "awaiting"
    /\ runner.promise.state = "resolved"
    /\ runner' = [runner EXCEPT !.pos = "returned", !.ret = runner.promise.value]
    /\ UNCHANGED <<storeVars, queueVars, procVars, envVars, s3Outputs, abandoned, batchTableVars, stdOut, workItemRecord, s3Logs>>

\* lines 203-207; response: the HTTP response the function holds after the try block
QueryCmrError(response) ==
    LET description == IF response = "error with description" THEN <<"response.data.description">>
                       ELSE <<"">>
    IN  IF description = <<"">> /\ response # "none"
        THEN <<"The Query CMR service responded with status ", "response.statusText || response.status", ".">>
        ELSE description

\* line 195
QueryCmrOutputs(catalogs) ==
    ServiceResponse({catalogs}, {"response.data.totalItemsSize"},
                    {"response.data.outputItemSizes"}, {"response.data.scrollID"}, {})

\* lines 169-190 and 197-207: the POST to the worker. outcome: a 2xx response, an
\* error response with or without a description, or no response at all
runQueryCmrFromPull(outcome) ==
    /\ runner.fn = "none"
    /\ runner' =
         IF outcome = "2xx"
         THEN [runner EXCEPT !.fn = "runQueryCmrFromPull", !.pos = "listing", !.response = outcome]
         ELSE [runner EXCEPT !.fn = "runQueryCmrFromPull", !.pos = "returned", !.response = outcome,
                             !.ret = ErrorResponse(QueryCmrError(outcome))]
    /\ UNCHANGED <<storeVars, queueVars, procVars, envVars, s3Outputs, abandoned, batchTableVars, stdOut, workItemRecord, s3Logs>>

\* lines 191-207: _getStacCatalogs returns or throws
QueryCmrCatalogsEnds(ok) ==
    /\ runner.fn = "runQueryCmrFromPull"
    /\ runner.pos = "listing"
    /\ LET r == _getStacCatalogs(s3Outputs)
       IN  runner' =
             [runner EXCEPT !.pos = "returned",
                            !.catalogs = IF ok THEN {r} ELSE {},
                            !.ret = IF ok /\ ~r.threw THEN QueryCmrOutputs(r.catalogs)
                                    ELSE ErrorResponse(QueryCmrError(runner.response))]
    /\ UNCHANGED <<storeVars, queueVars, procVars, envVars, s3Outputs, abandoned, batchTableVars, stdOut, workItemRecord, s3Logs>>

\* the caller takes the result; what is left of the call is dropped, and the work
\* item is run again as a retry
RunnerDone ==
    /\ runner.pos = "returned"
    /\ workItemRecord.retryCount < MaxRetries
    /\ runner' = IdleRunner
    /\ workItemRecord' = [workItemRecord EXCEPT !.retryCount = @ + 1]
    /\ UNCHANGED <<storeVars, queueVars, procVars, envVars, s3Outputs, abandoned, batchTableVars, stdOut, s3Logs>>

\* no run of the work item has been abandoned
NoExecution ==
    [exec |-> "none", cb |-> "none", workItem |-> [id |-> 0, retryCount |-> 0],
     logs |-> <<>>, oldFile |-> NoObject]

\* lines 256-258 and 250: the call returned the timeout error while the exec call
\* was still pending; nothing stops that exec call, and the work item is run again
\* as a retry
RetryAfterTimeout ==
    /\ runner.fn = "runServiceFromPull"
    /\ runner.pos = "returned"
    /\ runner.exec = "pending"
    /\ abandoned.exec = "none"
    /\ workItemRecord.retryCount < MaxRetries
    /\ abandoned' = [NoExecution EXCEPT !.exec = "pending", !.workItem = workItemRecord]
    /\ runner' = IdleRunner
    /\ workItemRecord' = [workItemRecord EXCEPT !.retryCount = @ + 1]
    /\ UNCHANGED <<storeVars, queueVars, procVars, envVars, s3Outputs, batchTableVars, stdOut, s3Logs>>

\* line 279: the abandoned exec call ends and invokes its status callback, which
\* starts uploadLogs with the logs it captured
AbandonedCallback(logs) ==
    /\ abandoned.exec = "pending"
    /\ abandoned' = [abandoned EXCEPT !.exec = "called", !.cb = "reading", !.logs = logs]
    /\ UNCHANGED <<storeVars, queueVars, procVars, envVars, s3Outputs, batchTableVars, stdOut,
                   runner, workItemRecord, s3Logs>>

\* lines 223-228: uploadLogs of the abandoned run reads the stored object
AbandonedRead ==
    /\ abandoned.cb = "reading"
    /\ abandoned' = [abandoned EXCEPT !.cb = "writing", !.oldFile = s3Logs]
    /\ UNCHANGED <<storeVars, queueVars, procVars, envVars, s3Outputs, batchTableVars, stdOut,
                   runner, workItemRecord, s3Logs>>

\* line 230: uploadLogs of the abandoned run uploads what it read and its own logs
AbandonedWrite ==
    /\ abandoned.cb = "writing"
    /\ s3Logs' = uploadLogs(abandoned.workItem, abandoned.logs, abandoned.oldFile)
    /\ abandoned' = [abandoned EXCEPT !.cb = "done"]
    /\ UNCHANGED <<storeVars, queueVars, procVars, envVars, s3Outputs, batchTableVars, stdOut,
                   runner, workItemRecord>>

(***************************************************************************)
(* LogStream.  A chunk is the text written to the stream; its kind tells   *)
(* what JSON.parse makes of it: an object, a number, a string or null      *)
(* (the text is valid JSON), or a SyntaxError ("text").  An object is the  *)
(* function from the field names to the field values, "absent" for a       *)
(* field the object does not have.                                         *)
(***************************************************************************)
FieldNames == {"timestamp", "level", "message", "workerTimestamp", "workerLevel", "worker"}

Absent == "absent"

NoFields == [k \in FieldNames |-> Absent]

\* the values a field can have in a chunk
FieldValues(k) == IF k \in {"workerTimestamp", "workerLevel", "worker"} THEN {Absent, "w"}
                  ELSE {Absent, "v"}

JsonObjects == {o \in [FieldNames -> {Absent, "v", "w"}] : \A k \in FieldNames : o[k] \in FieldValues(k)}

Chunk(kind, text, fields) == [kind |-> kind, text |-> text, fields |-> fields]

Chunks ==
    {Chunk("object", "", o) : o \in JsonObjects}
        \cup {Chunk("number", "42", NoFields), Chunk("string", "\"done\"", NoFields),
              Chunk("null", "null", NoFields), Chunk("text", "plain line", NoFields)}

\* lines 36-52: a new LogStream; chunks: what has been written to it
NewLogStream == [chunks |-> <<>>, logStrArr |-> <<>>, logged |-> <<>>]

\* the name a field is moved to: `worker${upperCasedPropName}` (lines 73-74)
WorkerName(propertyName) == IF propertyName = "timestamp" THEN "workerTimestamp" ELSE "workerLevel"

\* lines 72-76: one round of the loop on logObj
Rename(logObj, propertyName) ==
    IF logObj[propertyName] # Absent
    THEN [logObj EXCEPT ![WorkerName(propertyName)] = logObj[propertyName],
                        ![propertyName] = Absent]
    ELSE logObj

\* line 78: { ...logObj, worker: true }
WithWorkerTag(logObj) == [logObj EXCEPT !["worker"] = "true"]

\* a variant that stores the object as it was parsed
_handleLogStringStoresParsed(ls, logStr) ==
    CASE logStr.kind = "text" ->
           [ls EXCEPT !.logStrArr = Append(@, logStr),
                      !.logged = Append(@, Chunk("text", logStr.text, WithWorkerTag(NoFields)))]
      [] logStr.kind = "object" ->
           LET logObj == Rename(Rename(logStr.fields, "timestamp"), "level")
           IN  [ls EXCEPT !.logStrArr = Append(@, logStr),
                          !.logged = Append(@, Chunk("object", "", WithWorkerTag(logObj)))]
      [] OTHER ->
           [ls EXCEPT !.logStrArr = Append(@, logStr)]

\* lines 66-85.  The object pushed at line 70 is the one the loop then changes, so
\* logStrArr holds the renamed object; for a number, a string or null the `in` of
\* line 72 throws a TypeError, which the catch of lines 79-84 ignores
_handleLogString(ls, logStr) ==
    CASE logStr.kind = "text" ->
           [ls EXCEPT !.logStrArr = Append(@, logStr),
                      !.logged = Append(@, Chunk("text", logStr.text, WithWorkerTag(NoFields)))]
      [] logStr.kind = "object" ->
           LET logObj == Rename(Rename(logStr.fields, "timestamp"), "level")
           IN  [ls EXCEPT !.logStrArr = Append(@, Chunk("object", "", logObj)),
                          !.logged = Append(@, Chunk("object", "", WithWorkerTag(logObj)))]
      [] OTHER ->
           [ls EXCEPT !.logStrArr = Append(@, logStr)]

\* lines 58-62: a chunk is written to the stream
_write(chunk) ==
    /\ Len(stdOut.chunks) < MaxWrites
    /\ stdOut' = _handleLogString([stdOut EXCEPT !.chunks = Append(@, chunk)], chunk)
    /\ UNCHANGED <<storeVars, queueVars, procVars, envVars, runnerVars, batchTableVars>>

(***************************************************************************)
(* models/batch.ts: the batches table and withHighestBatchIDForJobService. *)
(***************************************************************************)
Batch(jobID, serviceID, batchID) == [jobID |-> jobID, serviceID |-> serviceID, batchID |-> batchID]

\* no call of withHighestBatchIDForJobService yet
NoLookup == [jobID |-> "none", serviceID |-> "none", batch |-> {}]

\* the processes that allocate batches
Allocators == {1, 2}

IdleAllocator == [pos |-> "idle", jobID |-> "none", serviceID |-> "none", batchID |-> 0]

NoBatches ==
    /\ batches = <<>>
    /\ highestBatch = NoLookup
    /\ allocators = [a \in Allocators |-> IdleAllocator]

\* the query without its serviceID condition
withHighestBatchIDForJob(tx, jobID, serviceID) ==
    LET rows == {n \in 1..Len(tx) : tx[n].jobID = jobID}
    IN  IF rows = {} THEN {}
        ELSE {tx[CHOOSE n \in rows : \A m \in rows : tx[m].batchID <= tx[n].batchID]}

\* lines 61-77: where({ jobID, serviceID }).orderBy('batchID', 'desc').first();
\* {}: undefined, {row}: the Batch built from the row
withHighestBatchIDForJobService(tx, jobID, serviceID) ==
    LET rows == {n \in 1..Len(tx) : tx[n].jobID = jobID /\ tx[n].serviceID = serviceID}
    IN  IF rows = {} THEN {}
        ELSE {tx[CHOOSE n \in rows : \A m \in rows : tx[m].batchID <= tx[n].batchID]}

\* lines 48-51: a new batch is inserted; a (job, service) has one batch per batchID
Batch_save(jobID, serviceID, batchID) ==
    /\ Len(batches) < MaxBatches
    /\ \A n \in 1..Len(batches) : batches[n] # Batch(jobID, serviceID, batchID)
    /\ batches' = Append(batches, Batch(jobID, serviceID, batchID))
    /\ UNCHANGED <<storeVars, queueVars, procVars, envVars, runnerVars, stdOut, highestBatch, allocators>>

\* a caller asks for the highest batch of a (job, service)
HighestBatchLookup(jobID, serviceID) ==
    /\ highestBatch' = [jobID |-> jobID, serviceID |-> serviceID,
                        batch |-> withHighestBatchIDForJobService(batches, jobID, serviceID)]
    /\ UNCHANGED <<storeVars, queueVars, procVars, envVars, runnerVars, stdOut, batches, allocators>>

\* the batchID after the highest one (1 for a pair without batches)
NextBatchID(highest) ==
    IF highest = {} THEN 1 ELSE (CHOOSE b \in highest : TRUE).batchID + 1

\* an allocator reads the current maximum of a (job, service)
AllocatorRead(a, jobID, serviceID) ==
    /\ allocators[a].pos = "idle"
    /\ Len(batches) < MaxBatches
    /\ LET highest == withHighestBatchIDForJobService(batches, jobID, serviceID)
       IN  /\ highestBatch' = [jobID |-> jobID, serviceID |-> serviceID, batch |-> highest]
           /\ allocators' = [allocators EXCEPT ![a] =
                                [pos |-> "read", jobID |-> jobID, serviceID |-> serviceID,
                                 batchID |-> NextBatchID(highest)]]
    /\ UNCHANGED <<storeVars, queueVars, procVars, envVars, runnerVars, stdOut, batches>>

\* the allocator saves the batch numbered with the maximum it read plus one
AllocatorSave(a) ==
    /\ allocators[a].pos = "read"
    /\ Len(batches) < MaxBatches
    /\ batches' = Append(batches, Batch(allocators[a].jobID, allocators[a].serviceID,
                                        allocators[a].batchID))
    /\ allocators' = [allocators EXCEPT ![a] = IdleAllocator]
    /\ UNCHANGED <<storeVars, queueVars, procVars, envVars, runnerVars, stdOut, highestBatch>>

(***************************************************************************)
(* Initial states.                                                         *)
(***************************************************************************)
IdleProcs ==
    /\ pc = [p \in Procs |-> "idle"]
    /\ svc = [p \in Procs |-> "subsetter"]
    /\ batchSize = [p \in Procs |-> 0]
    /\ jobIds = [p \in Procs |-> <<>>]
    /\ remainingNumOfJobs = [p \in Procs |-> 0]
    /\ remainingBatchSize = [p \in Procs |-> 0]
    /\ result = [p \in Procs |-> <<>>]
    /\ queueItem = [p \in Procs |-> NULL]
    /\ currentStatus = [p \in Procs |-> READY]
    /\ deleted = [p \in Procs |-> FALSE]

EmptyQueues ==
    /\ queue = [i \in DOMAIN items |-> 0]
    /\ schedQueue = [S \in Services |-> 0]

RunnerIdle ==
    /\ runner = IdleRunner
    /\ abandoned = NoExecution
    /\ stdOut = NewLogStream
    /\ workItemRecord \in [id : 1..MaxItems, retryCount : {0}]
    /\ s3Logs = NoObject

(***************************************************************************)
(* SpecClaim: N concurrent claimers against a fixed set of READY items of  *)
(* one (job, service); no store errors.                                    *)
(***************************************************************************)
InitClaim ==
    /\ \E n \in 0..(MaxItems + 3) :
          items = [i \in 1..n |-> [jobID |-> "j1", serviceID |-> "subsetter", status |-> READY]]
    /\ userWork = ConsistentCounts(items)
    /\ EmptyQueues
    /\ IdleProcs
    /\ faults = 0
    /\ dups = 0
    /\ useServiceQueues = FALSE
    /\ RunnerIdle
    /\ s3Outputs = SingleCatalogDir
    /\ NoBatches

ClaimSingle(p) == getWorkFromDatabase(p, "subsetter")

ClaimBatch(p) == \E size \in 1..MaxBatchSize : BatchStart(p, "subsetter", size)

NextClaim ==
    \E p \in Procs :
        \/ ClaimSingle(p)
        \/ ClaimBatch(p)
        \/ processJob(p)
        \/ BatchReturn(p)

SpecClaim == InitClaim /\ [][NextClaim]_vars

RECURSIVE SumLen(_, _)
SumLen(f, n) == IF n = 0 THEN 0 ELSE Len(f[n]) + SumLen(f, n - 1)

RECURSIVE SumOf(_, _)
SumOf(f, n) == IF n = 0 THEN 0 ELSE f[n] + SumOf(f, n - 1)

NoRepeats(s) == \A a, b \in 1..Len(s) : a # b => s[a] # s[b]

AllClaimersDone == \A p \in Procs : pc[p] \in {"dbdone", "batchdone"}

\* C2: N concurrent claimers (getWorkFromDatabase with limit 1, or the per-job
\* transaction of getWorkItemsFromDatabase with limit batchSize) against a fixed set
\* of READY items of one (job, service): in every interleaving no item is claimed by
\* two claimers or twice by one, and when all have returned the number of items
\* claimed is min(sum of the per-claim limits, number of available items).
C2_AtMostOneClaim ==
    /\ \A p, q \in Procs : p # q => Range(result[p]) \cap Range(result[q]) = {}
    /\ \A p \in Procs : NoRepeats(result[p])
    /\ AllClaimersDone =>
          LET limits == SumOf(batchSize, NProcs)
              available == Cardinality(DOMAIN items)
          IN  SumLen(result, NProcs) = IF limits < available THEN limits ELSE available

\* all claimers returned, two of them hold items and one got fewer than its limit
C2_Witness ==
    /\ AllClaimersDone
    /\ \E p, q \in Procs : p # q /\ result[p] # <<>> /\ result[q] # <<>>
    /\ \E r \in Procs : Len(result[r]) < batchSize[r]
    /\ \E r \in Procs : pc[r] = "dbdone" /\ result[r] # <<>>
    /\ \E r \in Procs : pc[r] = "batchdone" /\ Len(result[r]) = 2

(***************************************************************************)
(* Spec: one scheduler and the consumers of the service queues (or, with   *)
(* service queues disabled, pollers of the database), with cancellation,   *)
(* duplicate delivery and store errors.                                    *)
(***************************************************************************)
JobOfItem(i) == <<"j1", "j2", "j1", "j1", "j3", "j2">>[((i - 1) % 6) + 1]
ServiceOfItem(i) == IF i % 3 = 0 THEN "query-cmr" ELSE "subsetter"

Scheduler == 1

\* the service each worker pod pulls work for
env_harmonyService(p) == "subsetter"
Consumers == Procs \ {Scheduler}

Init ==
    /\ items = [i \in 1..MaxItems |->
                  [jobID |-> JobOfItem(i), serviceID |-> ServiceOfItem(i), status |-> READY]]
    /\ userWork = ConsistentCounts(items)
    /\ EmptyQueues
    /\ IdleProcs
    /\ faults = 0
    /\ dups = MaxDups
    /\ useServiceQueues \in BOOLEAN
    /\ RunnerIdle
    /\ s3Outputs = SingleCatalogDir
    /\ NoBatches

\* the caller of the polling functions: the queue when service queues are in use
getWork(p) ==
    IF useServiceQueues
    THEN ShortPoll(p, env_harmonyService(p))
    ELSE getWorkFromDatabase(p, env_harmonyService(p))

Next ==
    \/ SchedulerPoll(Scheduler)
    \/ processJob(Scheduler)
    \/ BatchReturn(Scheduler)
    \/ SchedulerEnqueue(Scheduler)
    \/ \E p \in Consumers :
          \/ getWork(p)
          \/ makeWorkScheduleRequest(p)
          \/ LongPoll(p)
          \/ DeleteMessage(p)
          \/ CheckIn(p)
          \/ NoWork(p)
          \/ \E outcome \in {SUCCESSFUL, FAILED, READY} : WorkerDone(p, outcome)
    \/ \E id \in DOMAIN items : Cancel(id)
    \/ \E id \in DOMAIN items : Redeliver(id)

Spec == Init /\ [][Next]_vars

\* C1: getWorkFromQueue, for every message it dequeues: if the status read at
\* check-in is CANCELED the call returns null and the status stays CANCELED;
\* otherwise the item is set to RUNNING and returned.
C1_CheckInContract ==
    [][\A p \in Procs :
          (pc[p] = "checkin" /\ pc'[p] = "qdone") =>
             LET id == queueItem[p] IN
             IF items[id].status = CANCELED
             THEN result'[p] = <<>> /\ items'[id].status = CANCELED
             ELSE result'[p] = <<id>> /\ items'[id].status = RUNNING]_vars

\* C3: at every quiescent point readyCount + runningCount of each (job, service)
\* equals the number of its work items in a non-terminal status (every transaction
\* is one step, so every state is quiescent).
C3_CountConservation ==
    \A k \in Jobs \X Services :
        userWork[k].readyCount + userWork[k].runningCount
            = Cardinality(ItemsIn(items, k[2], k[1], {READY, RUNNING}))

\* C4: at most one executor runs a given work item at any time, also when the
\* same dispatch message is delivered to two consumers.
C4_AtMostOneExecutor ==
    \A p, q \in Procs :
        (p # q /\ Executing(p) /\ Executing(q)) => result[p][1] # result[q][1]

\* C5: no step moves a work item out of a terminal status, and the only backward
\* step is RUNNING -> READY.
C5_StatusMonotonic ==
    [][\A id \in DOMAIN items :
          \/ items'[id].status = items[id].status
          \/ items[id].status = READY /\ items'[id].status \in {RUNNING, CANCELED}
          \/ items[id].status = RUNNING /\ items'[id].status \in TerminalStatus \cup {READY}]_vars

(***************************************************************************)
(* SpecFair: one batch pass over three jobs of one service that hold       *)
(* SmallJob or BigJob READY items each, with batchSize FairBatchSize.      *)
(***************************************************************************)
FairJobOf(i, n1, n2) == IF i <= n1 THEN "j1" ELSE IF i <= n1 + n2 THEN "j2" ELSE "j3"

InitFair ==
    /\ \E n1, n2, n3 \in {SmallJob, BigJob} :
          items = [i \in 1..(n1 + n2 + n3) |->
                     [jobID |-> FairJobOf(i, n1, n2), serviceID |-> "subsetter", status |-> READY]]
    /\ userWork = ConsistentCounts(items)
    /\ EmptyQueues
    /\ IdleProcs
    /\ faults = 0
    /\ dups = 0
    /\ useServiceQueues = FALSE
    /\ RunnerIdle
    /\ s3Outputs = SingleCatalogDir
    /\ NoBatches

FairPass == BatchStart(1, "subsetter", FairBatchSize)

NextFair ==
    \/ FairPass
    \/ processJob(1)
    \/ BatchReturn(1)

SpecFair == InitFair /\ [][NextFair]_vars

JobAt(p, n) == items[result[p][n]].jobID

ItemsOfJob(j) == {i \in DOMAIN items : items[i].jobID = j}

\* two jobs hold SmallJob items and one holds BigJob items
OneBigJob ==
    /\ Cardinality({j \in Jobs : Cardinality(ItemsOfJob(j)) = SmallJob}) = 2
    /\ Cardinality({j \in Jobs : Cardinality(ItemsOfJob(j)) = BigJob}) = 1

\* C10 as stated: with jobs holding 1, 1 and 50 READY items and batchSize 10, every
\* job with a READY item receives an item, and receives it before any job receives
\* a second item.
C10_FirstBeforeAnySecond ==
    OneBigJob =>
      /\ pc[1] = "batchdone" =>
            \A j \in Jobs : ItemsOfJob(j) # {} => \E n \in 1..Len(result[1]) : JobAt(1, n) = j
      /\ \A n2 \in 1..Len(result[1]) :
            (\E n1 \in 1..(n2 - 1) : JobAt(1, n1) = JobAt(1, n2)) =>
                \A j \in Jobs : ItemsOfJob(j) # {} => \E n \in 1..(n2 - 1) : JobAt(1, n) = j

\* C10 amended: for every order of the shuffle, every job with a READY item
\* receives at least one item in the pass.
C10_EveryJobServed ==
    pc[1] = "batchdone" =>
        \A j \in Jobs : ItemsOfJob(j) # {} => \E n \in 1..Len(result[1]) : JobAt(1, n) = j

\* the pass over jobs holding 1, 1 and 50 items in which the big job came first
C10_Witness ==
    /\ pc[1] = "batchdone"
    /\ Cardinality(ItemsOfJob("j1")) = SmallJob
    /\ Cardinality(ItemsOfJob("j2")) = SmallJob
    /\ Cardinality(ItemsOfJob("j3")) = BigJob
    /\ Len(result[1]) > 3
    /\ JobAt(1, 1) = "j3"
    /\ JobAt(1, 2) = "j3"
    /\ \A j \in Jobs : \E n \in 1..Len(result[1]) : JobAt(1, n) = j

(***************************************************************************)
(* SpecRunner: calls of runServiceFromPull and runQueryCmrFromPull, with   *)
(* every outcome of the exec call, the timer, the HTTP request and the     *)
(* object store.                                                           *)
(***************************************************************************)
\* what stdOut.logStrArr can hold when the exec call ends
LogStreams ==
    {<<>>, <<LogEntry("string", 1)>>, <<LogEntry("object", 1), LogEntry("string", 2)>>}

InitRunner ==
    /\ items = [i \in 1..MaxItems |->
                  [jobID |-> JobOfItem(i), serviceID |-> ServiceOfItem(i), status |-> RUNNING]]
    /\ userWork = ConsistentCounts(items)
    /\ EmptyQueues
    /\ IdleProcs
    /\ faults = 0
    /\ dups = 0
    /\ useServiceQueues = TRUE
    /\ RunnerIdle
    /\ s3Outputs = SingleCatalogDir
    /\ NoBatches

NextRunner ==
    \/ \E sync \in {"ok", "throws", "executor throws"} : runServiceFromPull(sync)
    \/ TimerFires
    \/ ExecRejects
    \/ \E status \in {"Success", "Failure"} : \E exitCode \in {"none", "1", OOM_EXIT_CODE} :
       \E logs \in LogStreams : StatusCallback(status, exitCode, logs)
    \/ \E ok \in BOOLEAN : UploadLogsEnds(ok)
    \/ \E ok \in BOOLEAN : StacCatalogsEnds(ok)
    \/ \E artifact \in {"present", "absent", "throws"} : ErrorMessageEnds(artifact)
    \/ AwaitEnds
    \/ \E outcome \in {"2xx", "error with description", "error", "none"} :
          runQueryCmrFromPull(outcome)
    \/ \E ok \in BOOLEAN : QueryCmrCatalogsEnds(ok)
    \/ RunnerDone

SpecRunner == InitRunner /\ [][NextRunner]_vars

\* C6: runServiceFromPull: when the timer fires while the exec call has not
\* signalled completion, the promise resolves with the timeout error; the promise
\* is resolved once (no later completion callback or exec exception changes it),
\* and the call returns the promise's value.
C6_TimeoutResolvesOnce ==
    [][/\ (runner.timer = "armed" /\ runner'.timer = "fired" /\ runner.exec = "pending")
            => runner'.promise = [state |-> "resolved", value |-> ErrorResponse(TimeoutMessage)]
       /\ (runner.promise.state = "resolved" /\ runner'.fn = "runServiceFromPull")
            => runner'.promise = runner.promise
       /\ (runner.pos = "awaiting" /\ runner'.pos = "returned")
            => runner'.ret = runner.promise.value]_vars

\* the call returned the timeout error and the exec call is still pending
C6_Witness ==
    /\ runner.fn = "runServiceFromPull"
    /\ runner.pos = "returned"
    /\ runner.timer = "fired"
    /\ runner.exec = "pending"
    /\ runner.ret = ErrorResponse(TimeoutMessage)

\* C7: once the exec completion callback has been invoked before the timer fired,
\* the call never resolves with the timeout error.
C7_CompletionFirstWins ==
    [][(runner.exec = "called" /\ runner.promise.state = "pending")
          => runner'.promise.value # ErrorResponse(TimeoutMessage)]_vars

Returned == runner.pos = "returned"

\* C8: every result returned by runServiceFromPull and runQueryCmrFromPull carries
\* either outputs (with sizes and scrollID for query-cmr only) or an error, never both.
C8_OutputsOrError ==
    Returned =>
        /\ (runner.ret.batchCatalogs = {}) # (runner.ret.error = {})
        /\ runner.ret.error # {} =>
              runner.ret.totalItemsSize = {} /\ runner.ret.outputItemSizes = {}
              /\ runner.ret.scrollID = {}
        /\ runner.fn = "runServiceFromPull" =>
              runner.ret.totalItemsSize = {} /\ runner.ret.outputItemSizes = {}
              /\ runner.ret.scrollID = {}

\* runServiceFromPull returned the timeout error, and the completion callback that
\* came later listed the catalogs of a successful execution: the result holds the
\* error alone
C8_Witness ==
    /\ Returned
    /\ runner.fn = "runServiceFromPull"
    /\ runner.status = "Success"
    /\ runner.cb = "done"
    /\ runner.timer = "fired"
    /\ runner.ret = ErrorResponse(TimeoutMessage)

\* C9: the two functions never raise to their caller: a non-success status, a
\* timeout, an exec exception (synchronous or asynchronous), an HTTP failure and an
\* object-store failure each end in a returned { error }.
C9_NeverRaises ==
    /\ runner.pos # "threw"
    /\ runner.promise.state = "rejected" => Returned
    /\ Returned =>
          \/ runner.ret.error # {}
          \/ /\ runner.fn = "runServiceFromPull"
             /\ runner.status = "Success" /\ runner.exec = "called" /\ runner.timer = "cleared"
          \/ /\ runner.fn = "runQueryCmrFromPull"
             /\ runner.response = "2xx"

\* the executor of the promise threw after the timer was set, and the call
\* returned the error
C9_Witness ==
    /\ Returned
    /\ runner.promise.state = "rejected"
    /\ runner.timer = "fired"
    /\ runner.ret = ErrorResponse(<<"The service failed.">>)

OomMessage == "Service failed due to running out of memory"

\* C17: _getErrorMessage, for every combination of error.json present or absent and
\* exit code 137 or other: a present, readable error.json gives its error field, also
\* with exit code 137; an absent one gives the out-of-memory message with exit code
\* 137 and the default message otherwise.
C17_ErrorPrecedence ==
    /\ runner.artifact = "present" => runner.message = "logEntry.error"
    /\ runner.artifact = "absent" =>
          runner.message = IF runner.exitCode = OOM_EXIT_CODE THEN OomMessage ELSE "Unknown error"

\* the execution ran out of memory and left an error.json: its error field is the
\* message the call returned
C17_Witness ==
    /\ Returned
    /\ runner.artifact = "present"
    /\ runner.exitCode = OOM_EXIT_CODE
    /\ runner.message = "logEntry.error"
    /\ runner.ret = ErrorResponse(<<"serviceName", ": ", "logEntry.error">>)

\* C18: when checking for or reading error.json throws, _getErrorMessage returns
\* the out-of-memory message with exit code 137 and a default message otherwise;
\* nothing is raised, and the promise is resolved with an error built from it.
C18_UnreadableArtifact ==
    runner.artifact = "throws" =>
        /\ runner.message = IF runner.exitCode = OOM_EXIT_CODE THEN OomMessage
                            ELSE "Service terminated without error message"
        /\ runner.pos # "threw"
        /\ runner.promise.state = "resolved"
        /\ runner.promise.value.error # {}
        /\ runner.timer = "cleared" =>
              runner.promise.value = ErrorResponse(<<"serviceName", ": ", runner.message>>)

\* reading error.json threw after an execution that ran out of memory, and the call
\* returned the out-of-memory message
C18_Witness ==
    /\ Returned
    /\ runner.artifact = "throws"
    /\ runner.exitCode = OOM_EXIT_CODE
    /\ runner.ret = ErrorResponse(<<"serviceName", ": ", OomMessage>>)

\* C19: runServiceFromPull: when uploadLogs throws after the exec call completed,
\* the promise holds the default error 'The <service> service failed.', whatever
\* the status of the execution, and that is what the call returns.
C19_UploadFailureDefaultError ==
    [][(runner.cb = "uploading" /\ runner'.cb = "done")
          => runner'.promise = [state |-> "resolved",
                                value |-> ErrorResponse(ServiceFailedMessage)]]_vars

StoredLogs(obj) == IF obj.exists THEN getObjectJson(obj) ELSE <<>>

\* C20: every write to the logs location stores the list held before, then one retry
\* marker naming the work item's retryCount and id, then the captured logs in
\* order; so every earlier stored list is a prefix of the current one.
C20_AppendOnly ==
    [][s3Logs' # s3Logs =>
          LET P == StoredLogs(s3Logs)
              N == StoredLogs(s3Logs')
              L == runner.logs
          IN  /\ s3Logs'.exists
              /\ Len(N) = Len(P) + 1 + Len(L)
              /\ SubSeq(N, 1, Len(P)) = P
              /\ N[Len(P) + 1].marker
              /\ N[Len(P) + 1].retryCount = workItemRecord.retryCount
              /\ N[Len(P) + 1].id = workItemRecord.id
              /\ SubSeq(N, Len(P) + 2, Len(N)) = L
              /\ \A n \in 1..Len(L) : ~L[n].marker]_vars

\* the logs of the first run and of the retry are stored one after the other
C20_Witness ==
    /\ s3Logs.exists
    /\ Len(StoredLogs(s3Logs)) = 5
    /\ StoredLogs(s3Logs)[1].marker /\ StoredLogs(s3Logs)[1].retryCount = 0
    /\ ~StoredLogs(s3Logs)[2].marker
    /\ StoredLogs(s3Logs)[3].marker /\ StoredLogs(s3Logs)[3].retryCount = 1
    /\ StoredLogs(s3Logs)[3].kind = "object"
    /\ ~StoredLogs(s3Logs)[4].marker /\ ~StoredLogs(s3Logs)[5].marker

(***************************************************************************)
(* SpecDesync: one pass of getWorkFromDatabase or getWorkItemsFromDatabase *)
(* by one process over a store whose user_work counts may be stale (some   *)
(* finished items are still counted as READY), with store errors.          *)
(***************************************************************************)
InitDesync ==
    /\ \E done \in SUBSET (1..DesyncItems) : \E stale \in SUBSET done :
          /\ items = [i \in 1..DesyncItems |->
                        [jobID |-> JobOfItem(i), serviceID |-> "subsetter",
                         status |-> IF i \in done THEN SUCCESSFUL ELSE READY]]
          /\ userWork = ConsistentCounts(
                           [i \in 1..DesyncItems |->
                              [jobID |-> JobOfItem(i), serviceID |-> "subsetter",
                               status |-> IF i \in done \ stale THEN SUCCESSFUL ELSE READY]])
    /\ EmptyQueues
    /\ IdleProcs
    /\ faults \in 0..MaxFaults
    /\ dups = 0
    /\ useServiceQueues = FALSE
    /\ RunnerIdle
    /\ s3Outputs = SingleCatalogDir
    /\ NoBatches

NextDesync ==
    \/ getWorkFromDatabase(Scheduler, "subsetter")
    \/ \E size \in 1..DesyncBatchSize : BatchStart(Scheduler, "subsetter", size)
    \/ processJob(Scheduler)
    \/ BatchReturn(Scheduler)

SpecDesync == InitDesync /\ [][NextDesync]_vars

\* C11: when a store operation of a pass of getWorkFromDatabase or
\* getWorkItemsFromDatabase fails (a query, the count update or the commit), the
\* pass ends without raising and returns no work: null, or an empty list.
C11_ErrorReturnsNoWork ==
    [][\A p \in Procs :
          (faults' < faults /\ pc'[p] # pc[p]) =>
              /\ pc'[p] \in {"dbdone", "batchdone"}
              /\ result'[p] = <<>>]_vars

ActualCounts(its, j, S) ==
    [readyCount |-> Cardinality(ItemsIn(its, S, j, {READY})),
     runningCount |-> Cardinality(ItemsIn(its, S, j, {RUNNING}))]

\* C12: getWorkFromDatabase, when a user and a job are selected for the service and
\* no READY item is found for the job (and the transaction commits): the call ends
\* at once with null, no item changes, and the job's counts are the actual numbers
\* of its READY and RUNNING items.
C12_SingleDesyncRepaired ==
    [][\A p \in Procs :
          (/\ pc[p] = "idle" /\ pc'[p] = "dbdone"
           /\ faults' = faults
           /\ getNextUsernameForWork(userWork, svc'[p]) # {}
           /\ result'[p] = <<>>)
          => /\ items' = items
             /\ \E j \in Jobs :
                   /\ userWork[<<j, svc'[p]>>].readyCount > 0
                   /\ ItemsIn(items, svc'[p], j, {READY}) = {}
                   /\ userWork'[<<j, svc'[p]>>] = ActualCounts(items', j, svc'[p])
                   /\ \A k \in DOMAIN userWork : k[1] # j => userWork'[k] = userWork[k]]_vars

\* the call returned null and repaired the counts of j2, whose only item had
\* finished; the stale counts of another job are as they were
C12_Witness ==
    /\ pc[Scheduler] = "dbdone"
    /\ result[Scheduler] = <<>>
    /\ items[2].status = SUCCESSFUL
    /\ userWork[<<"j2", "subsetter">>] = [readyCount |-> 0, runningCount |-> 0]
    /\ items[5].status = SUCCESSFUL
    /\ userWork[<<"j3", "subsetter">>].readyCount = 1

\* C13: getWorkItemsFromDatabase, when a job yields no items (and no store operation
\* fails): its counts are recomputed, the result keeps what was claimed before, and
\* the loop goes on with the remaining jobs; every item claimed in the pass is in
\* the result, so at the end of the loop every selected job that had a READY item
\* has an item in the result.
C13_BatchDesyncContinues ==
    /\ [][\A p \in Procs :
             (pc[p] = "loop" /\ jobIds[p] # <<>> /\ faults' = faults /\ pc'[p] # "idle"
              /\ <<jobIds[p], result[p], userWork>> # <<jobIds'[p], result'[p], userWork'>>)
             => LET j == Head(jobIds[p])
                    claimed == {i \in DOMAIN items : items[i].status # items'[i].status}
                IN  /\ pc'[p] = "loop"
                    /\ jobIds'[p] = Tail(jobIds[p])
                    /\ Len(result'[p]) = Len(result[p]) + Cardinality(claimed)
                    /\ SubSeq(result'[p], 1, Len(result[p])) = result[p]
                    /\ Range(result'[p]) = Range(result[p]) \cup claimed
                    /\ ItemsIn(items, svc[p], j, {READY}) = {} =>
                          /\ claimed = {}
                          /\ userWork'[<<j, svc[p]>>] = ActualCounts(items, j, svc[p])]_vars
    /\ [](\A p \in Procs :
             (pc[p] = "loop" /\ jobIds[p] = <<>> /\ batchSize[p] = DesyncBatchSize) =>
                 /\ Range(result[p]) = {i \in DOMAIN items : items[i].status = RUNNING}
                 /\ \A j \in Jobs :
                       ItemsIn(items, svc[p], j, {READY, RUNNING}) # {} =>
                           \E n \in 1..Len(result[p]) : JobAt(p, n) = j)

\* the pass returned items of j1 and j3 and repaired the counts of j2, whose only
\* item had finished
C13_Witness ==
    /\ pc[Scheduler] = "batchdone"
    /\ batchSize[Scheduler] = DesyncBatchSize
    /\ items[2].status = SUCCESSFUL
    /\ userWork[<<"j2", "subsetter">>] = [readyCount |-> 0, runningCount |-> 0]
    /\ \E n \in 1..Len(result[Scheduler]) : JobAt(Scheduler, n) = "j1"
    /\ \E n \in 1..Len(result[Scheduler]) : JobAt(Scheduler, n) = "j3"
    /\ Len(result[Scheduler]) = DesyncBatchSize

(***************************************************************************)
(* SpecQueue: the consumers call getWorkFromQueue, with service queues     *)
(* enabled or disabled, for their service or for a service that has no     *)
(* queue; the scheduler serves the scheduling requests; items are          *)
(* cancelled and store errors occur.  Initially the scheduler has already  *)
(* claimed and enqueued some of the items.                                 *)
(***************************************************************************)
InitQueue ==
    /\ \E sent \in SUBSET (1..MaxItems) :
          /\ items = [i \in 1..MaxItems |->
                        [jobID |-> JobOfItem(i), serviceID |-> ServiceOfItem(i),
                         status |-> IF i \in sent THEN RUNNING ELSE READY]]
          /\ queue = [i \in 1..MaxItems |-> IF i \in sent THEN 1 ELSE 0]
    /\ schedQueue = [S \in Services |-> 0]
    /\ userWork = ConsistentCounts(items)
    /\ IdleProcs
    /\ faults \in 0..MaxFaults
    /\ dups = 0
    /\ useServiceQueues \in BOOLEAN
    /\ RunnerIdle
    /\ s3Outputs = SingleCatalogDir
    /\ NoBatches

\* the call getWorkFromQueue(S)
getWorkFromQueue(p) == \E S \in {env_harmonyService(p), "unknown"} : ShortPoll(p, S)

NextQueue ==
    \/ SchedulerPoll(Scheduler)
    \/ processJob(Scheduler)
    \/ BatchReturn(Scheduler)
    \/ SchedulerEnqueue(Scheduler)
    \/ \E p \in Consumers :
          \/ getWorkFromQueue(p)
          \/ makeWorkScheduleRequest(p)
          \/ LongPoll(p)
          \/ DeleteMessage(p)
          \/ CheckIn(p)
          \/ NoWork(p)
          \/ \E outcome \in {SUCCESSFUL, FAILED, READY} : WorkerDone(p, outcome)
    \/ \E id \in DOMAIN items : Cancel(id)

SpecQueue == InitQueue /\ [][NextQueue]_vars

\* C14: getWorkFromQueue(S) first short-polls the queue of S; if and only if that
\* gives no message it makes one scheduling request (a message carrying S on the
\* scheduler-request queue when service queues are enabled, nothing when they are
\* disabled) and then long-polls; after a short poll that gave a message the call
\* makes no scheduling request and no long poll.
C14_ConsumerProtocolOrder ==
    [][/\ \A p \in Procs :
            /\ (pc[p] = "idle" /\ pc'[p] \in {"request", "delete"}) =>
                  /\ schedQueue' = schedQueue
                  /\ (pc'[p] = "request") <=> (queueItem'[p] = NULL)
            /\ (pc[p] = "request" /\ pc'[p] # "request") =>
                  /\ pc'[p] = "longpoll"
                  /\ queue' = queue
                  /\ schedQueue' = IF useServiceQueues
                                   THEN [schedQueue EXCEPT ![svc[p]] = @ + 1]
                                   ELSE schedQueue
            /\ (pc'[p] = "longpoll" /\ pc[p] # "longpoll") => pc[p] = "request"
            /\ pc[p] \in {"delete", "checkin"} => pc'[p] \notin {"request", "longpoll"}
       /\ (\E S \in Services : schedQueue'[S] > schedQueue[S]) =>
             \E p \in Procs : pc[p] = "request" /\ pc'[p] = "longpoll"]_vars

\* a consumer that found its queue empty has sent its request and long-polls, while
\* another consumer got a message at its short poll
C14_Witness ==
    \E p, q \in Consumers :
        /\ useServiceQueues
        /\ pc[p] = "longpoll" /\ queueItem[p] = NULL
        /\ schedQueue[svc[p]] = 1
        /\ pc[q] = "delete" /\ queueItem[q] # NULL

\* C15: in getWorkFromQueue a received message is deleted from the queue before the
\* item's status is read or changed and before the call returns, whether the item
\* is returned, found CANCELED, or the status update fails.
C15_DeleteBeforeProcessing ==
    /\ [](\A p \in Procs :
             (pc[p] \in {"checkin", "qdone"} /\ queueItem[p] # NULL) => deleted[p])
    /\ [][\A p \in Procs :
             /\ (pc[p] = "delete" /\ pc'[p] # "delete") =>
                   /\ pc'[p] = "checkin" /\ deleted'[p]
                   /\ UNCHANGED <<items, userWork, queueItem>>
                   /\ currentStatus'[p] = currentStatus[p]
                   /\ result'[p] = result[p]
             /\ (pc'[p] = "qdone" /\ pc[p] # "qdone" /\ queueItem[p] # NULL) =>
                   pc[p] = "checkin" /\ deleted[p]]_vars

\* the message of an item that had been cancelled was deleted, and then the call
\* found the item CANCELED
C15_Witness ==
    \E p \in Consumers :
        /\ pc[p] = "qdone"
        /\ queueItem[p] # NULL
        /\ deleted[p]
        /\ currentStatus[p] = CANCELED

\* C16: getWorkFromQueue(S) raises to its caller when no queue is configured for S,
\* before any queue message is read, sent or deleted and before the store is touched.
C16_NoQueueRaises ==
    [][\A p \in Procs :
          (pc[p] = "idle" /\ pc'[p] # "idle" /\ svc'[p] \notin Services) =>
              /\ pc'[p] = "threw"
              /\ UNCHANGED <<items, userWork, queue, schedQueue, queueItem, deleted, result>>]_vars

\* the call for a service without a queue raised while a message was waiting on the
\* queue of another service
C16_Witness ==
    \E p \in Consumers :
        /\ pc[p] = "threw"
        /\ svc[p] = "unknown"
        /\ queueItem[p] = NULL
        /\ \E i \in DOMAIN queue : queue[i] > 0

\* C24: every work item returned by getWorkFromDatabase or getWorkItemsFromDatabase
\* was claimed in a transaction that committed: no item of the result is still
\* READY in the store (one process, nothing else changes the items).
C24_ReturnedItemsAreClaimed ==
    \A p \in Procs :
        pc[p] \in {"dbdone", "batchdone"} =>
            \A n \in 1..Len(result[p]) : items[result[p][n]].status = RUNNING

\* the items a step claims
Claimed == {i \in DOMAIN items : items[i].status = READY /\ items'[i].status = RUNNING}

\* C25: in getWorkItemsFromDatabase the job at the head of the shuffled list gets
\* min(ceil(remaining / jobs left), its READY items) items, where remaining is
\* batchSize minus the number of items returned for the jobs before it and jobs
\* left is the number of jobs not yet processed.
C25_BatchAllotment ==
    [][\A p \in Procs :
          (pc[p] = "loop" /\ jobIds[p] # <<>> /\ jobIds'[p] # jobIds[p] /\ pc'[p] = "loop") =>
              LET j == Head(jobIds[p])
                  allotment == Ceil(batchSize[p] - Len(result[p]), Len(jobIds[p]))
                  available == Cardinality(ItemsIn(items, svc[p], j, {READY}))
              IN  /\ Len(result'[p]) - Len(result[p])
                        = IF allotment < available THEN allotment ELSE available
                  /\ \A n \in (Len(result[p]) + 1)..Len(result'[p]) :
                        items[result'[p][n]].jobID = j
                  /\ remainingBatchSize'[p] = batchSize[p] - Len(result'[p])
                  /\ remainingNumOfJobs'[p] = Len(jobIds'[p])]_vars

\* jobs holding 1, 1 and 50 items, batchSize 10, order j1, j2, j3: the slots the
\* small jobs left unused went to the last job, which got 8 items
C25_Witness ==
    /\ pc[1] = "batchdone"
    /\ OneBigJob
    /\ Len(result[1]) = FairBatchSize
    /\ JobAt(1, 1) = "j1"
    /\ JobAt(1, 2) = "j2"
    /\ \A n \in 3..Len(result[1]) : JobAt(1, n) = "j3"

\* C26: in getWorkItemsFromDatabase, before each job is processed,
\* remainingBatchSize >= remainingNumOfJobs >= 1, so the job's limit is at least 1.
C26_AllotmentAtLeastOne ==
    \A p \in Procs :
        (pc[p] = "loop" /\ jobIds[p] # <<>>) =>
            /\ remainingBatchSize[p] >= remainingNumOfJobs[p]
            /\ remainingNumOfJobs[p] >= 1
            /\ WorkSize(remainingBatchSize[p], remainingNumOfJobs[p]) >= 1

\* the last of three jobs is about to be processed with one slot left for it
C26_Witness ==
    /\ pc[Scheduler] = "loop"
    /\ Len(jobIds[Scheduler]) = 1
    /\ Len(result[Scheduler]) = 2
    /\ remainingNumOfJobs[Scheduler] = 1
    /\ remainingBatchSize[Scheduler] = 1

\* C27: getWorkItemsFromDatabase(S, batchSize) returns at most batchSize items.
C27_AtMostBatchSize ==
    \A p \in Procs :
        pc[p] \in {"loop", "batchdone"} => Len(result[p]) <= batchSize[p]

\* a pass returned batchSize items and left READY items in the store
C27_Witness ==
    /\ pc[Scheduler] = "batchdone"
    /\ batchSize[Scheduler] = DesyncBatchSize
    /\ Len(result[Scheduler]) = DesyncBatchSize
    /\ \E i \in DOMAIN items : items[i].status = READY
    /\ \A n \in 1..Len(result[Scheduler]) : items[result[Scheduler][n]].status = RUNNING

Stale(uw, its, j, S) == uw[<<j, S>>] # ActualCounts(its, j, S)

\* C28: in a polling pass the counts of a job are recomputed from the work-item
\* rows if and only if the claim for that job returned no item, and in the step
\* (transaction) of that claim: after a claim that returned nothing the job's
\* counts are the actual ones; after a claim that returned items stale counts of
\* the job are still stale.
C28_RecalculateIffNoItem ==
    [][\A p \in Procs :
          /\ (pc[p] = "loop" /\ jobIds[p] # <<>> /\ jobIds'[p] # jobIds[p] /\ pc'[p] = "loop") =>
                LET j == Head(jobIds[p]) IN
                /\ Claimed = {} => ~Stale(userWork', items', j, svc[p])
                /\ (Claimed # {} /\ Stale(userWork, items, j, svc[p]))
                      => Stale(userWork', items', j, svc[p])
                /\ \A k \in DOMAIN userWork : k[1] # j => userWork'[k] = userWork[k]
          /\ (pc[p] = "idle" /\ pc'[p] = "dbdone" /\ faults' = faults) =>
                /\ (Claimed = {} /\ userWork' # userWork) =>
                      \E j \in Jobs :
                         /\ userWork[<<j, svc'[p]>>].readyCount > 0
                         /\ ~Stale(userWork', items', j, svc'[p])
                /\ \A i \in Claimed :
                      Stale(userWork, items, items[i].jobID, svc'[p])
                         => Stale(userWork', items', items[i].jobID, svc'[p])]_vars

\* one pass claimed an item of j1, whose counts are still stale, and recomputed
\* the counts of j2, whose only item had finished
C28_Witness ==
    /\ pc[Scheduler] = "batchdone"
    /\ \E n \in 1..Len(result[Scheduler]) : JobAt(Scheduler, n) = "j1"
    /\ Stale(userWork, items, "j1", "subsetter")
    /\ items[2].status = SUCCESSFUL
    /\ userWork[<<"j2", "subsetter">>] = [readyCount |-> 0, runningCount |-> 0]
    /\ remainingBatchSize[Scheduler] > 0

\* C29: a step that claims k >= 1 items claims them for one (job, service), lowers
\* that pair's readyCount by k and raises its runningCount by k, and changes no
\* other counts; a step of a pass that claims nothing changes no counts unless it
\* detected a desync (a selected job without READY items).
C29_CountsMoveWithClaim ==
    [][\/ faults' # faults
       \/ /\ Claimed # {}
          /\ \E k \in DOMAIN userWork :
                /\ \A i \in Claimed : <<items[i].jobID, items[i].serviceID>> = k
                /\ userWork' = [userWork EXCEPT ![k] =
                                  [readyCount |-> @.readyCount - Cardinality(Claimed),
                                   runningCount |-> @.runningCount + Cardinality(Claimed)]]
       \/ /\ Claimed = {}
          /\ \/ userWork' = userWork
             \/ \E j \in Jobs : \E S \in Services :
                   /\ userWork[<<j, S>>].readyCount > 0
                   /\ ItemsIn(items, S, j, {READY}) = {}
                   /\ \A k \in DOMAIN userWork : k[1] # j => userWork'[k] = userWork[k]]_vars

\* one transaction claimed the three items of j1 and moved its counts by three
C29_Witness ==
    /\ pc[Scheduler] = "batchdone"
    /\ result[Scheduler] = <<1, 3, 4>>
    /\ userWork[<<"j1", "subsetter">>] = [readyCount |-> 0, runningCount |-> 3]
    /\ userWork[<<"j2", "subsetter">>].runningCount = 0
    /\ userWork[<<"j3", "subsetter">>].runningCount = 0

\* C30: getWorkFromQueue, when the check-in transaction fails after the message was
\* deleted: the call ends with null without raising, and the items and the counts
\* in the store are what they were.
C30_CheckInFailureLeavesStore ==
    [][\A p \in Procs :
          (pc[p] = "checkin" /\ pc'[p] # "checkin" /\ faults' < faults) =>
              /\ deleted[p]
              /\ pc'[p] = "qdone"
              /\ result'[p] = <<>>
              /\ items' = items
              /\ userWork' = userWork]_vars

\* the message was deleted, the check-in failed, the call returned null, and the
\* item is not cancelled
C30_Witness ==
    \E p \in Consumers :
        /\ pc[p] = "qdone"
        /\ queueItem[p] # NULL
        /\ deleted[p]
        /\ result[p] = <<>>
        /\ items[queueItem[p]].status = RUNNING
        /\ queue[queueItem[p]] = 0

(***************************************************************************)
(* SpecCatalogs: the service runner over every small outputs directory.    *)
(***************************************************************************)
\* the names an outputs directory can hold
OutputFiles ==
    {File("catalog", {}), CatalogFile(0), CatalogFile(2), CatalogFile(10), File("granule", {})}

\* the listings of up to MaxKeys distinct names, in any order
Listings ==
    {keys \in UNION {[1..n -> OutputFiles] : n \in 0..MaxKeys} :
        \A a, b \in 1..Len(keys) : a # b => keys[a] # keys[b]}

\* the content of batch-catalogs.json when the service wrote one
Manifest == <<CatalogFile(10), File("granule", {}), CatalogFile(2)>>

OutputDirs == {Directory(manifest, keys) : manifest \in {{}, {Manifest}}, keys \in Listings}

InitCatalogs ==
    /\ items = [i \in 1..MaxItems |->
                  [jobID |-> JobOfItem(i), serviceID |-> ServiceOfItem(i), status |-> RUNNING]]
    /\ userWork = ConsistentCounts(items)
    /\ EmptyQueues
    /\ IdleProcs
    /\ faults = 0
    /\ dups = 0
    /\ useServiceQueues = TRUE
    /\ runner = IdleRunner
    /\ abandoned = NoExecution
    /\ stdOut = NewLogStream
    /\ workItemRecord = [id |-> 1, retryCount |-> 0]
    /\ s3Logs = NoObject
    /\ s3Outputs \in OutputDirs
    /\ NoBatches

SpecCatalogs == InitCatalogs /\ [][NextRunner]_vars

\* the URLs of the names that match the catalog pattern
MatchingUrls == {Url("s3://artifactBucket/", s3Outputs.keys[n]) :
                   n \in {m \in 1..Len(s3Outputs.keys) : s3Outputs.keys[m].stem = "catalog"}}

\* the index of a catalog name, 0 when the name has none
IndexOrZero(url) == IF url.file.digits = {} THEN 0 ELSE CHOOSE n \in url.file.digits : TRUE

\* L holds exactly the matching names, once each, in ascending order of index
AscendingCatalogs(L) ==
    /\ {L[n] : n \in 1..Len(L)} = MatchingUrls
    /\ Len(L) = Cardinality(MatchingUrls)
    /\ \A a, b \in 1..Len(L) : a < b => IndexOrZero(L[a]) <= IndexOrZero(L[b])

\* C21: _getStacCatalogs: with the manifest batch-catalogs.json present the result
\* is its listed names in its order, each prefixed with the directory, whatever
\* else the directory holds; without it the result is exactly the names matching
\* the catalog pattern, in ascending numeric order of index.
C21_ManifestOrNumericOrder ==
    \A r \in runner.catalogs :
        /\ ~r.threw
        /\ IF s3Outputs.manifest # {}
           THEN r.catalogs = [n \in 1..Len(Manifest) |-> Url("dir", Manifest[n])]
           ELSE AscendingCatalogs(r.catalogs)

\* C22: _getStacCatalogs: without a manifest, a name that passes the filter and has
\* no numeric index is ordered as index 0, and the call returns normally.
C22_NoIndexSortsAsZero ==
    \A r \in runner.catalogs :
        (/\ s3Outputs.manifest = {}
         /\ \E u \in MatchingUrls : u.file.digits = {})
        => /\ ~r.threw
           /\ AscendingCatalogs(r.catalogs)

\* the directories on which the comparator never reads a missing match: a manifest,
\* fewer than two matching names, or matching names that all carry an index
NumberedCatalogsSorted ==
    \A r \in runner.catalogs :
        (\/ s3Outputs.manifest # {}
         \/ Cardinality(MatchingUrls) < 2
         \/ \A u \in MatchingUrls : u.file.digits # {})
        => /\ ~r.threw
           /\ IF s3Outputs.manifest # {}
              THEN r.catalogs = [n \in 1..Len(Manifest) |-> Url("dir", Manifest[n])]
              ELSE AscendingCatalogs(r.catalogs)

\* without a manifest, catalog10, catalog0 and catalog2 were listed in that order
\* and returned as catalog0, catalog2, catalog10
NumberedCatalogsSortedWitness ==
    /\ s3Outputs = Directory({}, <<CatalogFile(10), CatalogFile(0), CatalogFile(2)>>)
    /\ \E r \in runner.catalogs :
          r.catalogs = <<Url("s3://artifactBucket/", CatalogFile(0)),
                         Url("s3://artifactBucket/", CatalogFile(2)),
                         Url("s3://artifactBucket/", CatalogFile(10))>>

(***************************************************************************)
(* SpecBatch: batches are saved in any order for three (job, service)      *)
(* pairs, and the highest batch of a pair is looked up.                    *)
(***************************************************************************)
BatchPairs == {<<"j1", "subsetter">>, <<"j1", "query-cmr">>, <<"j2", "subsetter">>}

InitBatch ==
    /\ items = [i \in 1..MaxItems |->
                  [jobID |-> JobOfItem(i), serviceID |-> ServiceOfItem(i), status |-> RUNNING]]
    /\ userWork = ConsistentCounts(items)
    /\ EmptyQueues
    /\ IdleProcs
    /\ faults = 0
    /\ dups = 0
    /\ useServiceQueues = TRUE
    /\ runner = IdleRunner
    /\ abandoned = NoExecution
    /\ stdOut = NewLogStream
    /\ workItemRecord = [id |-> 1, retryCount |-> 0]
    /\ s3Logs = NoObject
    /\ s3Outputs = SingleCatalogDir
    /\ NoBatches

NextBatch ==
    \/ \E pair \in BatchPairs : \E batchID \in 1..MaxBatchID : Batch_save(pair[1], pair[2], batchID)
    \/ \E pair \in BatchPairs : HighestBatchLookup(pair[1], pair[2])

SpecBatch == InitBatch /\ [][NextBatch]_vars

\* the rows of a (job, service) in the table
BatchesOf(jobID, serviceID) ==
    {batches[n] : n \in {m \in 1..Len(batches) :
                           batches[m].jobID = jobID /\ batches[m].serviceID = serviceID}}

\* C23: withHighestBatchIDForJobService returns undefined when the (job, service)
\* has no batch, and otherwise the batch of exactly that pair with the maximum
\* batchID, whatever the insertion order and the batches of other pairs.
C23_HighestBatchOfPair ==
    [][highestBatch' # highestBatch =>
          LET R == BatchesOf(highestBatch'.jobID, highestBatch'.serviceID)
          IN  IF R = {} THEN highestBatch'.batch = {}
              ELSE \E b \in R : /\ highestBatch'.batch = {b}
                                /\ \A x \in R : x.batchID <= b.batchID]_vars

\* the pair's batches were saved out of order, another pair of the same job holds
\* a higher batchID, and the lookup returned the pair's own highest batch
C23_Witness ==
    /\ Len(batches) = MaxBatches
    /\ batches[1] = Batch("j1", "subsetter", 2)
    /\ batches[2] = Batch("j1", "query-cmr", 3)
    /\ batches[3] = Batch("j1", "subsetter", 1)
    /\ highestBatch = [jobID |-> "j1", serviceID |-> "subsetter",
                       batch |-> {Batch("j1", "subsetter", 2)}]

\* C32: runServiceFromPull: whenever the promise is resolved by the exec completion
\* callback or by the exec exception handler, the timer has been cleared by then, on
\* the success path, the failed-status path, the exec-exception path and the path
\* where the log upload throws.
C32_TimerClearedWhenResolved ==
    [][(/\ runner.promise.state = "pending"
        /\ runner'.promise.state = "resolved"
        /\ ~(runner.timer = "armed" /\ runner'.timer = "fired"))
          => runner'.timer = "cleared"]_vars

(***************************************************************************)
(* SpecRunnerLive: the service runner with the steps the runtime always    *)
(* takes: an armed timer fires, the object-store calls of the completion   *)
(* callback return or throw, and a settled promise ends the await.  The    *)
(* exec call itself may never complete.                                    *)
(***************************************************************************)
SpecRunnerLive ==
    /\ InitRunner
    /\ [][NextRunner]_vars
    /\ WF_vars(TimerFires)
    /\ WF_vars(\E ok \in BOOLEAN : UploadLogsEnds(ok))
    /\ WF_vars(\E ok \in BOOLEAN : StacCatalogsEnds(ok))
    /\ WF_vars(\E artifact \in {"present", "absent", "throws"} : ErrorMessageEnds(artifact))
    /\ WF_vars(AwaitEnds)

\* C33: every call of runServiceFromPull eventually returns a result: when the
\* timer fires if the exec call never completes, and otherwise when the completion
\* handler finishes, the object-store calls of the handler returning.
C33_CallResolves ==
    /\ (runner.fn = "runServiceFromPull") ~> (runner.pos = "returned")
    /\ [](runner.timer = "fired" => runner.promise.state # "pending")

\* a call returned the catalogs after its completion handler cleared the timer
C33_Witness ==
    /\ runner.fn = "runServiceFromPull"
    /\ runner.pos = "returned"
    /\ runner.timer = "cleared"
    /\ runner.cb = "done"
    /\ runner.ret.batchCatalogs # {}

\* C34: whenever runQueryCmrFromPull does not return outputs, the error it returns
\* is a non-empty string: for an HTTP error response with or without a description,
\* for a request that fails without any response, and for a failure while listing
\* the output catalogs.
C34_QueryCmrErrorNonEmpty ==
    (/\ runner.fn = "runQueryCmrFromPull"
     /\ runner.pos = "returned"
     /\ runner.ret.batchCatalogs = {})
    => /\ runner.ret.error # {}
       /\ <<"">> \notin runner.ret.error

\* the arrays of up to three job ids, repeated ids included
ShuffleInputs == UNION {[1..n -> Jobs] : n \in 0..Cardinality(Jobs)}

\* how often x occurs in array
Occurrences(array, x) == Cardinality({n \in 1..Len(array) : array[n] = x})

\* the arrays of the same length that hold every element as often as array does
Rearrangements(array) ==
    {b \in [1..Len(array) -> {array[n] : n \in 1..Len(array)}] :
        \A x \in Jobs : Occurrences(b, x) = Occurrences(array, x)}

\* C40: shuffleArray returns a permutation of its input (same length, same elements
\* with the same multiplicities) and every permutation is a possible outcome; so the
\* job list the batch path processes holds each fetched job id exactly once.
C40_ShuffleIsPermutation ==
    /\ [](\A array \in ShuffleInputs : FisherYates(array, Len(array)) = Rearrangements(array))
    /\ [][\A p \in Procs :
            (pc[p] = "idle" /\ pc'[p] = "loop") =>
                /\ \A a, b \in 1..Len(jobIds'[p]) : a # b => jobIds'[p][a] # jobIds'[p][b]
                /\ {jobIds'[p][n] : n \in 1..Len(jobIds'[p])}
                      \in getNextJobIds(userWork, svc'[p], batchSize'[p])]_vars

\* a batch pass fetched the three jobs and processes them in the order j3, j2, j1
C40_Witness ==
    /\ pc[Scheduler] = "loop"
    /\ jobIds[Scheduler] = <<"j3", "j2", "j1">>
    /\ remainingNumOfJobs[Scheduler] = 3

(***************************************************************************)
(* SpecDrain: two schedulers call getWorkItemsFromDatabase("subsetter")    *)
(* again and again over a fixed set of READY items, with no store errors;  *)
(* each enqueues what its call returned before it calls again.  Every      *)
(* scheduler keeps taking steps.                                           *)
(***************************************************************************)
Schedulers == {1, 2}

InitDrain ==
    /\ items = [i \in 1..DrainItems |->
                  [jobID |-> JobOfItem(i), serviceID |-> ServiceOfItem(i), status |-> READY]]
    /\ userWork = ConsistentCounts(items)
    /\ EmptyQueues
    /\ IdleProcs
    /\ faults = 0
    /\ dups = 0
    /\ useServiceQueues = TRUE
    /\ RunnerIdle
    /\ s3Outputs = SingleCatalogDir
    /\ NoBatches

DrainStep(p) ==
    \/ \E size \in 1..MaxBatchSize : BatchStart(p, "subsetter", size)
    \/ processJob(p)
    \/ BatchReturn(p)
    \/ SchedulerEnqueue(p)

NextDrain == \E p \in Schedulers : DrainStep(p)

SpecDrain == InitDrain /\ [][NextDrain]_vars /\ \A p \in Schedulers : WF_vars(DrainStep(p))

\* C38: with a fixed set of READY items of service S, no store errors and no new
\* items: a call of getWorkItemsFromDatabase(S, batchSize >= 1) claims at least one
\* item of every job it processes that has READY items, and repeated calls
\* eventually claim every READY item of S.
C38_BatchPathDrains ==
    /\ [][\A p \in Schedulers :
            (/\ pc[p] = "loop" /\ jobIds[p] # <<>> /\ jobIds'[p] # jobIds[p]
             /\ ItemsIn(items, svc[p], Head(jobIds[p]), {READY}) # {})
            => Len(result'[p]) > Len(result[p])]_vars
    /\ <>[](\A i \in DOMAIN items : items[i].serviceID = "subsetter" => items[i].status # READY)

\* every item of the service was claimed, the two items of job j1 by different
\* calls; the item of the other service is still READY
C38_Witness ==
    /\ \A i \in DOMAIN items : items[i].status = IF items[i].serviceID = "subsetter" THEN RUNNING ELSE READY
    /\ pc[1] = "batchdone" /\ pc[2] = "batchdone"
    /\ 1 \in Range(result[1])
    /\ 4 \in Range(result[2])

(***************************************************************************)
(* SpecHandoff: the hand-off from the store to the consumers with service  *)
(* queues enabled and nothing failing: no store error, no duplicate        *)
(* delivery, no cancellation, and every worker succeeds.  The scheduler    *)
(* and every consumer keep taking steps.                                   *)
(***************************************************************************)
\* the two consumers of the service
HandoffConsumers == {2, 3}

InitHandoff ==
    /\ items = [i \in 1..MaxItems |->
                  [jobID |-> JobOfItem(i), serviceID |-> ServiceOfItem(i), status |-> READY]]
    /\ userWork = ConsistentCounts(items)
    /\ EmptyQueues
    /\ IdleProcs
    /\ faults = 0
    /\ dups = 0
    /\ useServiceQueues = TRUE
    /\ RunnerIdle
    /\ s3Outputs = SingleCatalogDir
    /\ NoBatches

SchedulerStep ==
    \/ SchedulerPoll(Scheduler)
    \/ processJob(Scheduler)
    \/ BatchReturn(Scheduler)
    \/ SchedulerEnqueue(Scheduler)

ConsumerStep(p) ==
    \/ ShortPoll(p, env_harmonyService(p))
    \/ makeWorkScheduleRequest(p)
    \/ LongPoll(p)
    \/ DeleteMessage(p)
    \/ CheckIn(p)
    \/ NoWork(p)
    \/ WorkerDone(p, SUCCESSFUL)

NextHandoff == SchedulerStep \/ \E p \in HandoffConsumers : ConsumerStep(p)

SpecHandoff ==
    /\ InitHandoff
    /\ [][NextHandoff]_vars
    /\ WF_vars(SchedulerStep)
    /\ \A p \in HandoffConsumers : WF_vars(ConsumerStep(p))

\* consumer p has been handed item i, which is RUNNING in the store
HandedTo(p, i) == pc[p] = "qdone" /\ result[p] = <<i>> /\ items[i].status = RUNNING

\* a consumer of the service of item i found the queue empty
FoundEmpty(i) == \E p \in HandoffConsumers : pc[p] = "request" /\ svc[p] = items[i].serviceID

\* C39: if a READY item exists for service S, nothing fails, and a consumer calling
\* getWorkFromQueue(S) finds the queue of S empty, then a scheduling request for S
\* is published, the scheduler enqueues the item on the queue of S, and the item is
\* eventually returned to a consumer of S with store status RUNNING.
C39_HandoffCompletes ==
    /\ [][\A p \in HandoffConsumers :
            (pc[p] = "request" /\ pc'[p] = "longpoll")
                => schedQueue' = [schedQueue EXCEPT ![svc[p]] = @ + 1]]_vars
    /\ \A i \in 1..MaxItems :
          /\ (items[i].status = READY /\ FoundEmpty(i)) ~> (queue[i] > 0)
          /\ (items[i].status = READY /\ FoundEmpty(i)) ~> (\E p \in HandoffConsumers : HandedTo(p, i))

\* item 2 was READY when a consumer found the queue empty; both items were then
\* handed over, one to each consumer
C39_Witness ==
    /\ HandedTo(2, 1)
    /\ HandedTo(3, 2)
    /\ queue = [i \in DOMAIN items |-> 0]
    /\ schedQueue["subsetter"] = 0

(***************************************************************************)
(* SpecAlloc: two allocators number the batches of three (job, service)    *)
(* pairs, each by reading the current maximum and saving a batch with the  *)
(* next batchID.                                                           *)
(***************************************************************************)
NextAlloc ==
    \/ \E a \in Allocators : \E pair \in BatchPairs : AllocatorRead(a, pair[1], pair[2])
    \/ \E a \in Allocators : AllocatorSave(a)

SpecAlloc == InitBatch /\ [][NextAlloc]_vars

NextOverlap ==
    \/ NextRunner
    \/ RetryAfterTimeout
    \/ \E logs \in LogStreams : AbandonedCallback(logs)
    \/ AbandonedRead
    \/ AbandonedWrite

SpecOverlap == InitRunner /\ [][NextOverlap]_vars

\* a is a prefix of b
IsPrefix(a, b) == Len(a) <= Len(b) /\ SubSeq(b, 1, Len(a)) = a

\* C31: for one work item the read-modify-write cycles of uploadLogs never overlap,
\* also when a run times out, the item is retried and the completion callback of
\* the timed-out run fires later; so no persisted log entry and no entry of either
\* writer is lost.
C31_UploadsNeverOverlap ==
    [][s3Logs' # s3Logs =>
          /\ abandoned.cb = "writing" => abandoned.oldFile = s3Logs
          /\ IsPrefix(StoredLogs(s3Logs), StoredLogs(s3Logs'))]_vars

(***************************************************************************)
(* SpecLogStream: up to MaxWrites chunks are written to a LogStream.       *)
(***************************************************************************)
NextLogStream == \E chunk \in Chunks : _write(chunk)

SpecLogStream == InitBatch /\ [][NextLogStream]_vars

LastChunk == stdOut.chunks[Len(stdOut.chunks)]

LastStored == stdOut.logStrArr[Len(stdOut.logStrArr)]

LastLogged == stdOut.logged[Len(stdOut.logged)]

\* record e is record o with timestamp and level moved to workerTimestamp and
\* workerLevel and every other field as in o
Renamed(o, e) ==
    /\ e["timestamp"] = Absent
    /\ e["level"] = Absent
    /\ o["timestamp"] # Absent => e["workerTimestamp"] = o["timestamp"]
    /\ o["level"] # Absent => e["workerLevel"] = o["level"]
    /\ \A k \in FieldNames \ {"timestamp", "level"} : o[k] # Absent => e[k] = o[k]
    /\ \A k \in FieldNames : (e[k] # Absent) =>
          \/ o[k] # Absent
          \/ k = "workerTimestamp" /\ o["timestamp"] # Absent
          \/ k = "workerLevel" /\ o["level"] # Absent

\* the same for the record handed to the logger, whose field worker is the tag
RenamedAndTagged(o, e) ==
    Renamed([o EXCEPT !["worker"] = "true"], e)

\* the chunk's own workerTimestamp or workerLevel is in the way of a renamed field
Collides(o) ==
    \/ o["timestamp"] # Absent /\ o["workerTimestamp"] # Absent
    \/ o["level"] # Absent /\ o["workerLevel"] # Absent

C36_OneEntryOneRecord ==
    /\ Len(stdOut.logStrArr) = Len(stdOut.chunks)
    /\ Len(stdOut.logged) = Len(stdOut.chunks)
    /\ \A n \in 1..Len(stdOut.logged) : stdOut.logged[n].fields["worker"] = "true"
    /\ \A n \in 1..Len(stdOut.logStrArr) :
          /\ stdOut.logStrArr[n].kind = stdOut.chunks[n].kind
          /\ stdOut.logStrArr[n].text = stdOut.chunks[n].text

====
